---- MODULE Spec2Model ----
(***************************************************************************)
(* Model of the embedding + similarity-search + caching engine of rl-mcp   *)
(* (app/api/v1/stock/services/vector_service.py and the controller that    *)
(* feeds it).  One request handler runs at a time inside a process: the    *)
(* handlers are coroutines without a real suspension point, so each one is *)
(* one atomic action.                                                      *)
(*                                                                         *)
(* Time is a discrete clock `now`.  Vectors are integer vectors of         *)
(* dimension 2; a cosine similarity c is represented by the integer        *)
(* sign(c) * c^2 * 100, which orders scores exactly as c does, and a       *)
(* threshold t in [0,1] by t^2 * 100.                                      *)
(***************************************************************************)
EXTENDS Integers, Sequences, FiniteSets, TLC

VARIABLES
    now,                \* wall clock (datetime.now(timezone.utc))
    provider_version,   \* which weights the embedding provider currently has
    embedding_cache,    \* VectorSearchService.embedding_cache: id -> vector
    vector_embeddings,  \* table vector_embeddings: embedding_id -> row
    stock_data,         \* table stock_data: id -> row
    market_cache,       \* table market_cache: cache_key -> row
    provider_calls,     \* per content: provider invocations by non-forced calls
                        \* since the content was last evicted / the process started
    last,               \* the handler call that has just completed and what it returned
    workers             \* further server processes sharing the store: per process
                        \* its own embedding_cache and the call it is executing

vars == <<now, provider_version, embedding_cache, vector_embeddings,
          stock_data, market_cache, provider_calls, last, workers>>

----------------------------------------------------------------------------
\* Bounds of the model

MaxTime == 2            \* the clock stops here
MaxSearchTime == 1      \* the clock stops here where no sweep runs
MaxRecords == 2         \* rows in stock_data
MaxCount == 2           \* cap of usage_count / hit_count
MantissaBits == 10      \* significand of a float (binary64 has 53)
MaxComponent == 2       \* vector components are integers of at most this size

\* Program constants, in clock ticks
CacheTtl == 1           \* cache_ttl_hours
RetentionWindow == 1    \* timedelta(days=30)
MarketCacheTtl == 1     \* cache_ttl_minutes of the market data service

NULL == "None"
NoScore == -1000        \* StockData.similarity_score is None
ModelName == "all-MiniLM-L6-v2"
Contents == {"a", "b"}
Versions == {1, 2}
ProviderDown == 0       \* the provider raises instead of returning a vector
OtherDimension == 3     \* weights that produce vectors of another dimension

----------------------------------------------------------------------------
\* Helpers

Put(f, k, v) == [x \in (DOMAIN f) \cup {k} |-> IF x = k THEN v ELSE f[x]]

Restrict(f, S) == [x \in S |-> f[x]]

EmptyMap == [x \in {} |-> NULL]

----------------------------------------------------------------------------
\* The embedding provider: deterministic for a fixed version of the weights.

Encode(content, version) ==
    IF version = 1
    THEN (IF content = "a" THEN <<1, 0>> ELSE <<0, 1>>)
    ELSE IF version = OtherDimension
    THEN (IF content = "a" THEN <<1, 0, 0>> ELSE <<0, 1, 0>>)
    ELSE (IF content = "a" THEN <<1, 1>> ELSE <<-1, 0>>)

\* model.encode(content) raises
EncodeRaises(version) == version = ProviderDown

\* sha256(content)[:16], taken as injective on Contents
ContentHash(content) == <<"sha256", content>>

GenerateCacheKey_NoModel(content, model_name) ==
    <<"embedding", "", ContentHash(content)>>

GenerateCacheKey(content, model_name) ==
    <<"embedding", model_name, ContentHash(content)>>

----------------------------------------------------------------------------
\* get_embedding, as a function of the state it reads.  db_ok says whether
\* the durable store accepts the writes of this call.  path = "error" stands
\* for an exception that leaves get_embedding.

\* self.embedding_cache[cache_key] = vector
StoreInMemoryCache_Skipped(cache, cache_key, vector) == cache

StoreInMemoryCache(cache, cache_key, vector) == Put(cache, cache_key, vector)

\* What a memory hit leaves in the store: lines 66-68 return at once
StoreAfterMemoryHit_Touched(store, cache_key) ==
    IF cache_key \in DOMAIN store
    THEN Put(store, cache_key, [store[cache_key] EXCEPT !.last_used = now])
    ELSE store

StoreAfterMemoryHit(store, cache_key) == store

UpdateUsage_Twice(row) ==
    [row EXCEPT !.last_used = now, !.usage_count = @ + 2]

\* cached_embedding.last_used = now; cached_embedding.usage_count += 1
UpdateUsage(row) ==
    [row EXCEPT !.last_used = now, !.usage_count = @ + 1]

InsertRecord_Overwriting(store, cache_key, row, db_ok) ==
    IF db_ok THEN Put(store, cache_key, row) ELSE store

\* db.add + db.commit is a plain INSERT: embedding_id is unique, so it fails
\* when a row for the id exists; the failure is caught
InsertRecord(store, cache_key, row, db_ok) ==
    IF db_ok /\ cache_key \notin DOMAIN store
    THEN Put(store, cache_key, row) ELSE store

GetEmbedding(cache, store, content, force_refresh, db_ok) ==
    LET cache_key == GenerateCacheKey(content, ModelName)
        raised == [id |-> cache_key, vector |-> <<>>, path |-> "error",
                   cache |-> cache, store |-> store, provider |-> 0]
    IN
    IF ~force_refresh /\ cache_key \in DOMAIN cache
    THEN [id |-> cache_key, vector |-> cache[cache_key], path |-> "memory",
          cache |-> cache, store |-> StoreAfterMemoryHit(store, cache_key),
          provider |-> 0]
    ELSE IF ~force_refresh /\ cache_key \in DOMAIN store
    THEN \* the db.commit() of the usage update is outside any try
         IF ~db_ok THEN raised
         ELSE
         LET row == UpdateUsage(store[cache_key])
         IN [id |-> cache_key, vector |-> row.embedding_vector,
             path |-> "database",
             cache |-> StoreInMemoryCache(cache, cache_key, row.embedding_vector),
             store |-> Put(store, cache_key, row), provider |-> 0]
    ELSE IF EncodeRaises(provider_version) THEN [raised EXCEPT !.provider = 1]
    ELSE LET embedding_vector == Encode(content, provider_version)
             row == [embedding_vector |-> embedding_vector,
                     dimension |-> Len(embedding_vector),
                     last_used |-> now,
                     usage_count |-> 1]
         IN [id |-> cache_key, vector |-> embedding_vector,
             path |-> "computed",
             cache |-> StoreInMemoryCache(cache, cache_key, embedding_vector),
             store |-> InsertRecord(store, cache_key, row, db_ok),
             provider |-> 1]

\* The usage counter is capped to keep the model finite.
UsageBelowCap(content) ==
    LET cache_key == GenerateCacheKey(content, ModelName) IN
    cache_key \in DOMAIN vector_embeddings
        => vector_embeddings[cache_key].usage_count < MaxCount

CountCall(content, force_refresh, r) ==
    IF ~force_refresh /\ r.provider = 1 /\ provider_calls[content] < 2
    THEN [provider_calls EXCEPT ![content] = @ + 1]
    ELSE provider_calls

\* A direct call of get_embedding (the embedding endpoint).
GetEmbeddingCall(content, force_refresh, db_ok) ==
    /\ force_refresh \/ UsageBelowCap(content)   \* a forced call never counts a use
    /\ \E r \in {GetEmbedding(embedding_cache, vector_embeddings, content,
                                force_refresh, db_ok)} :
          /\ embedding_cache' = r.cache
          /\ vector_embeddings' = r.store
          /\ provider_calls' = CountCall(content, force_refresh, r)
          /\ last' = [op |-> "get_embedding", content |-> content,
                      force_refresh |-> force_refresh, db_ok |-> db_ok,
                      id |-> r.id, vector |-> r.vector, path |-> r.path]
    /\ UNCHANGED <<workers, now, provider_version, stock_data, market_cache>>

----------------------------------------------------------------------------
\* Similarity

RECURSIVE DotFrom(_, _, _)
DotFrom(a, b, i) ==
    IF i > Len(a) THEN 0 ELSE a[i] * b[i] + DotFrom(a, b, i + 1)

Dot(a, b) == DotFrom(a, b, 1)

\* sklearn cosine_similarity: each vector is normalised first, a zero vector
\* stays zero, so the similarity with a zero vector is 0.
CosineSimilarity(a, b) ==
    LET d == Dot(a, b)
        na == Dot(a, a)
        nb == Dot(b, b)
    IN IF na = 0 \/ nb = 0 THEN 0
       ELSE (IF d < 0 THEN -1 ELSE 1) * ((d * d * 100) \div (na * nb))

----------------------------------------------------------------------------
\* Similarity as the processor computes it.  sklearn's cosine_similarity is
\* normalize(X) . normalize(Y)^T in binary floating point: every sum, product,
\* quotient and square root is rounded to the nearest float, ties to even.
\* A float is m * 2^e with |m| < 2^MantissaBits; zero is m = 0.

RECURSIVE Pow2(_)
Pow2(k) == IF k = 0 THEN 1 ELSE 2 * Pow2(k - 1)

RECURSIVE BitLength(_)
BitLength(n) == IF n = 0 THEN 0 ELSE 1 + BitLength(n \div 2)

\* n * 2^e for n >= 0, rounded to MantissaBits bits
RoundPos(n, e) ==
    IF n = 0 THEN [m |-> 0, e |-> 0]
    ELSE LET k == BitLength(n) - MantissaBits IN
         IF k <= 0 THEN [m |-> n * Pow2(-k), e |-> e + k]
         ELSE LET q == n \div Pow2(k)
                  r == n % Pow2(k)
                  half == Pow2(k - 1)
                  up == IF r > half \/ (r = half /\ q % 2 = 1) THEN q + 1 ELSE q
              IN IF up = Pow2(MantissaBits)
                 THEN [m |-> up \div 2, e |-> e + k + 1]
                 ELSE [m |-> up, e |-> e + k]

FNeg(x) == [m |-> -x.m, e |-> x.e]

Round(n, e) == IF n < 0 THEN FNeg(RoundPos(-n, e)) ELSE RoundPos(n, e)

Abs(n) == IF n < 0 THEN -n ELSE n

FMul(x, y) == Round(x.m * y.m, x.e + y.e)

FAdd(x, y) ==
    IF x.m = 0 THEN y
    ELSE IF y.m = 0 THEN x
    ELSE LET e == IF x.e < y.e THEN x.e ELSE y.e
         IN Round(x.m * Pow2(x.e - e) + y.m * Pow2(y.e - e), e)

\* the quotient carries two guard bits and a sticky bit into the rounding
FDiv(x, y) ==
    LET a == Abs(x.m) * Pow2(MantissaBits + 2)
        b == Abs(y.m)
        q == RoundPos(2 * (a \div b) + (IF a % b = 0 THEN 0 ELSE 1),
                      x.e - y.e - (MantissaBits + 2) - 1)
    IN IF (x.m < 0) # (y.m < 0) THEN FNeg(q) ELSE q

\* the largest s in lo..hi with s * s <= a
RECURSIVE ISqrtBetween(_, _, _)
ISqrtBetween(a, lo, hi) ==
    IF lo = hi THEN lo
    ELSE LET mid == (lo + hi + 1) \div 2
         IN IF mid * mid <= a THEN ISqrtBetween(a, mid, hi)
            ELSE ISqrtBetween(a, lo, mid - 1)

FSqrt(x) ==
    IF x.m = 0 THEN x
    ELSE LET sh == IF (x.e - (MantissaBits + 4)) % 2 = 0
                   THEN MantissaBits + 4 ELSE MantissaBits + 5
             a == x.m * Pow2(sh)
             s == ISqrtBetween(a, 0, Pow2(MantissaBits + 3))
         IN RoundPos(2 * s + (IF s * s = a THEN 0 ELSE 1),
                     (x.e - sh) \div 2 - 1)

FromInt(n) == Round(n, 0)

\* x <= y; the sign of a rounded difference is the sign of the difference
FLessEq(x, y) == FAdd(y, FNeg(x)).m >= 0

\* sum of f[i] * g[i], accumulated from the left
RECURSIVE FDotTo(_, _, _)
FDotTo(f, g, i) ==
    IF i = 0 THEN FromInt(0)
    ELSE FAdd(FDotTo(f, g, i - 1), FMul(f[i], g[i]))

\* sklearn normalize: a row is divided by its norm, a zero norm counts as 1
Normalize(f) ==
    LET norm == FSqrt(FDotTo(f, f, Len(f)))
        divisor == IF norm.m = 0 THEN FromInt(1) ELSE norm
    IN [i \in 1..Len(f) |-> FDiv(f[i], divisor)]

FloatCosineSimilarity(a, b) ==
    LET x == Normalize([i \in 1..Len(a) |-> FromInt(a[i])])
        y == Normalize([i \in 1..Len(b) |-> FromInt(b[i])])
    IN FDotTo(x, y, Len(a))

----------------------------------------------------------------------------
\* Search requests (VectorSearchQuery).  symbols = <<>> stands for both None
\* and the empty list, which the code treats alike; NoTime stands for an
\* absent datetime.

NoTime == -1

Queries ==
    { [query |-> "a", symbols |-> <<>>, limit |-> 2, similarity_threshold |-> 0,
       include_news |-> TRUE, include_analysis |-> TRUE,
       date_from |-> NoTime, date_to |-> NoTime],
      [query |-> "b", symbols |-> <<"AAPL">>, limit |-> 1, similarity_threshold |-> 25,
       include_news |-> FALSE, include_analysis |-> FALSE,
       date_from |-> 1, date_to |-> NoTime] }

Range(s) == {s[i] : i \in DOMAIN s}

\* The symbols of the model in the order of Python's string comparison
SymbolOrder == <<"AAPL", "MSFT", "aapl", "msft">>

SymbolRank(symbol) == CHOOSE i \in DOMAIN SymbolOrder : SymbolOrder[i] = symbol

\* sorted(query.symbols)
RECURSIVE InsertSymbol(_, _)
InsertSymbol(sorted, symbol) ==
    IF sorted = <<>> THEN <<symbol>>
    ELSE IF SymbolRank(Head(sorted)) <= SymbolRank(symbol)
         THEN <<Head(sorted)>> \o InsertSymbol(Tail(sorted), symbol)
         ELSE <<symbol>> \o sorted

RECURSIVE SortedSymbols(_)
SortedSymbols(symbols) ==
    IF symbols = <<>> THEN <<>>
    ELSE InsertSymbol(SortedSymbols(Tail(symbols)), Head(symbols))

\* datetime.isoformat() and datetime.fromisoformat()
IsoFormat(t) == <<"iso", t>>

FromIsoFormat(s) == s[2]

\* json.dumps writes None as null; the empty symbol list stands for null too
JsonNull == <<"null">>

\* sha256(json.dumps(query_dict, sort_keys=True))[:16], taken as injective on
\* the requests of the model
GenerateSearchCacheKey_Unsorted(query) ==
    <<"search",
      [query |-> query.query,
       symbols |-> query.symbols,
       limit |-> query.limit,
       threshold |-> query.similarity_threshold,
       include_news |-> query.include_news,
       include_analysis |-> query.include_analysis,
       date_from |-> IF query.date_from # NoTime
                     THEN IsoFormat(query.date_from) ELSE JsonNull,
       date_to |-> IF query.date_to # NoTime
                   THEN IsoFormat(query.date_to) ELSE JsonNull]>>

GenerateSearchCacheKey(query) ==
    <<"search",
      [query |-> query.query,
       symbols |-> SortedSymbols(query.symbols),
       limit |-> query.limit,
       threshold |-> query.similarity_threshold,
       include_news |-> query.include_news,
       include_analysis |-> query.include_analysis,
       date_from |-> IF query.date_from # NoTime
                     THEN IsoFormat(query.date_from) ELSE JsonNull,
       date_to |-> IF query.date_to # NoTime
                   THEN IsoFormat(query.date_to) ELSE JsonNull]>>

BuildFilterConditions_AnyTimestamp(query, row) ==
    LET content_types ==
            (IF query.include_news THEN {"news"} ELSE {})
            \cup (IF query.include_analysis THEN {"analysis"} ELSE {})
    IN /\ query.symbols # <<>> => row.symbol \in Range(query.symbols)
       /\ content_types # {} => row.data_type \in content_types
       /\ query.date_from # NoTime =>
             \/ (row.data_timestamp # NoTime /\ row.data_timestamp >= query.date_from)
             \/ row.created_at >= query.date_from
       /\ query.date_to # NoTime =>
             \/ (row.data_timestamp # NoTime /\ row.data_timestamp <= query.date_to)
             \/ row.created_at <= query.date_to

\* _build_filter_conditions, applied to one row.  A comparison with a NULL
\* data_timestamp is not true in SQL.
BuildFilterConditions(query, row) ==
    LET content_types ==
            (IF query.include_news THEN {"news"} ELSE {})
            \cup (IF query.include_analysis THEN {"analysis"} ELSE {})
    IN /\ query.symbols # <<>> => row.symbol \in Range(query.symbols)
       /\ content_types # {} => row.data_type \in content_types
       /\ query.date_from # NoTime =>
             \/ (row.data_timestamp # NoTime /\ row.data_timestamp >= query.date_from)
             \/ (row.data_timestamp = NoTime /\ row.created_at >= query.date_from)
       /\ query.date_to # NoTime =>
             \/ (row.data_timestamp # NoTime /\ row.data_timestamp <= query.date_to)
             \/ (row.data_timestamp = NoTime /\ row.created_at <= query.date_to)

\* result.model_dump(mode="json") and VectorSearchResult(**result)
ModelDump(result) ==
    [content |-> result.content, content_type |-> result.content_type,
     symbol |-> result.symbol, similarity_score |-> result.similarity_score,
     timestamp |-> IsoFormat(result.timestamp)]

Validate(data) ==
    [content |-> data.content, content_type |-> data.content_type,
     symbol |-> data.symbol, similarity_score |-> data.similarity_score,
     timestamp |-> FromIsoFormat(data.timestamp)]

MapSeq(s, Op(_)) == [i \in 1..Len(s) |-> Op(s[i])]

\* list.sort(key=similarity_score, reverse=True): stable, equal scores keep
\* the order in which they were appended.
RECURSIVE InsertDesc(_, _)
InsertDesc(sorted, r) ==
    IF sorted = <<>> THEN <<r>>
    ELSE IF Head(sorted).similarity_score >= r.similarity_score
         THEN <<Head(sorted)>> \o InsertDesc(Tail(sorted), r)
         ELSE <<r>> \o sorted

SortByScoreDesc_Unsorted(s) == s

RECURSIVE SortByScoreDesc(_)
SortByScoreDesc(s) ==
    IF s = <<>> THEN <<>>
    ELSE InsertDesc(SortByScoreDesc(SubSeq(s, 1, Len(s) - 1)), s[Len(s)])

Truncate_None(s, limit) == s

\* results[: query.limit]
Truncate(s, limit) == SubSeq(s, 1, IF Len(s) < limit THEN Len(s) ELSE limit)

\* The orders in which the store may enumerate a set of rows (no ORDER BY).
Enumerations(S) ==
    {s \in [1..Cardinality(S) -> S] : \A i, j \in DOMAIN s : s[i] = s[j] => i = j}

CachedItemFound_AtExpiry(cache, cache_key) ==
    /\ cache_key \in DOMAIN cache
    /\ cache[cache_key].cache_type = "search"
    /\ cache[cache_key].expires_at >= now

\* _get_cached_search_results: the row it finds, if any
CachedItemFound(cache, cache_key) ==
    /\ cache_key \in DOMAIN cache
    /\ cache[cache_key].cache_type = "search"
    /\ cache[cache_key].expires_at > now

\* `if similarity >= query.similarity_threshold`
Admits_Strict(similarity, threshold) == similarity > threshold

Admits(similarity, threshold) == similarity >= threshold

IncompatibleDimension_Longer(a, b) == Len(a) > Len(b)

\* sklearn's cosine_similarity raises ValueError for vectors of different length
IncompatibleDimension(a, b) == Len(a) # Len(b)

\* Lines 132-182 of search_similar_content: select the rows, resolve their
\* embeddings, score, keep those the threshold admits, sort and cut.  order is
\* the order in which the store enumerates stock_data.
RankCandidates(query, order, query_vector, store) ==
    LET stock_data_items ==
            SelectSeq(order, LAMBDA id :
                /\ stock_data[id].embedding_id # NULL
                /\ BuildFilterConditions(query, stock_data[id]))
        resolvable == SelectSeq(stock_data_items, LAMBDA id :
                          stock_data[id].embedding_id \in DOMAIN store)
        Score(id) ==
            LET item == stock_data[id] IN
            [content |-> item.content, content_type |-> item.data_type,
             symbol |-> item.symbol,
             similarity_score |->
                 CosineSimilarity(query_vector,
                     store[item.embedding_id].embedding_vector),
             timestamp |-> IF item.data_timestamp # NoTime
                           THEN item.data_timestamp ELSE item.created_at]
        mismatch == \E i \in DOMAIN resolvable :
                        IncompatibleDimension(query_vector,
                            store[stock_data[resolvable[i]].embedding_id].embedding_vector)
    IN [empty |-> stock_data_items = <<>>,
        mismatch |-> mismatch,
        results |->
            IF stock_data_items = <<>> \/ mismatch THEN <<>>
            ELSE Truncate(
                     SortByScoreDesc(
                         SelectSeq(MapSeq(resolvable, Score), LAMBDA r :
                             Admits(r.similarity_score, query.similarity_threshold))),
                     query.limit)]

\* _cache_search_results.  db.merge of a row without primary key is an INSERT:
\* cache_key is unique, so it fails when a row for the key exists; the failure
\* is caught.
CacheSearchResults_Upsert(cache, cache_key, results, put_ok) ==
    IF put_ok
    THEN Put(cache, cache_key,
             [cache_value |-> [results |-> MapSeq(results, ModelDump)],
              cache_type |-> "search",
              expires_at |-> now + CacheTtl,
              hit_count |-> 0,
              last_accessed |-> now])
    ELSE cache

CacheSearchResults(cache, cache_key, results, put_ok) ==
    IF put_ok /\ cache_key \notin DOMAIN cache
    THEN Put(cache, cache_key,
             [cache_value |-> [results |-> MapSeq(results, ModelDump)],
              cache_type |-> "search",
              expires_at |-> now + CacheTtl,
              hit_count |-> 0,
              last_accessed |-> now])
    ELSE cache

\* search_similar_content after a cache miss: e is what get_embedding returned
\* for the query text, cache1 the cache table after the lookup, put_ok whether
\* the store accepts the INSERT of the cache row.
SearchOnMiss(query, order, e, cache1, found, put_ok) ==
    LET search_cache_key == GenerateSearchCacheKey(query)
        raised == [cache |-> e.cache, store |-> e.store, market |-> cache1,
                   provider |-> e.provider, found |-> found,
                   results |-> <<>>, from_cache |-> FALSE, embedded |-> e.path # "error",
                   scored |-> FALSE, put |-> FALSE, raised |-> TRUE]
    IN IF e.path = "error" THEN raised      \* get_embedding raised
       ELSE CHOOSE out \in
            { IF rk.empty
              THEN [cache |-> e.cache, store |-> e.store, market |-> cache1,
                    provider |-> e.provider, found |-> found,
                    results |-> <<>>, from_cache |-> FALSE, embedded |-> TRUE,
                    scored |-> FALSE, put |-> FALSE, raised |-> FALSE]
              ELSE IF rk.mismatch THEN raised     \* cosine_similarity raised
              ELSE [cache |-> e.cache, store |-> e.store,
                    market |-> CacheSearchResults(cache1, search_cache_key,
                                                  rk.results, put_ok),
                    provider |-> e.provider, found |-> found,
                    results |-> rk.results, from_cache |-> FALSE, embedded |-> TRUE,
                    scored |-> TRUE,
                    put |-> put_ok /\ search_cache_key \notin DOMAIN cache1,
                    raised |-> FALSE]
              : rk \in {RankCandidates(query, order, e.vector, e.store)} } : TRUE

\* _get_cached_search_results: the list it returns (empty when it returns
\* None) and the table after the hit statistics were updated.
GetCachedSearchResults(cache, cache_key) ==
    IF CachedItemFound(cache, cache_key)
    THEN [found |-> TRUE,
          cache |-> Put(cache, cache_key,
                        [cache[cache_key] EXCEPT
                            !.hit_count = @ + 1, !.last_accessed = now]),
          results |-> MapSeq(cache[cache_key].cache_value.results, Validate)]
    ELSE [found |-> FALSE, cache |-> cache, results |-> <<>>]

\* search_similar_content, as a function of the state it reads.  emb_ok says
\* whether the store accepts the writes of get_embedding for the query text.
SearchSimilarContent(query, order, emb_ok, put_ok) ==
    CHOOSE out \in
    { IF c.found /\ c.results # <<>>     \* `if cached_results:`
      THEN [cache |-> embedding_cache, store |-> vector_embeddings,
            market |-> c.cache, provider |-> 0, found |-> c.found,
            results |-> c.results, from_cache |-> TRUE,
            embedded |-> FALSE, scored |-> FALSE, put |-> FALSE,
            raised |-> FALSE]
      ELSE CHOOSE miss \in
           { SearchOnMiss(query, order, e, c.cache, c.found, put_ok)
             : e \in {GetEmbedding(embedding_cache, vector_embeddings,
                                   query.query, FALSE, emb_ok)} } : TRUE
      : c \in {GetCachedSearchResults(market_cache,
                                      GenerateSearchCacheKey(query))} } : TRUE

\* What search_similar_content writes to the content rows: the scores go to
\* the VectorSearchResult objects of lines 170-177, the rows are only read.
StockDataAfterSearch_Scored(rows, results) ==
    [id \in DOMAIN rows |->
        IF \E i \in DOMAIN results : results[i].content = rows[id].content
        THEN [rows[id] EXCEPT !.similarity_score =
                 (CHOOSE r \in Range(results) : r.content = rows[id].content).similarity_score]
        ELSE rows[id]]

StockDataAfterSearch(rows, results) == rows

HitBelowCap(query) ==
    LET k == GenerateSearchCacheKey(query) IN
    k \in DOMAIN market_cache => market_cache[k].hit_count < MaxCount

SearchCall(query, order, emb_ok, put_ok) ==
    /\ HitBelowCap(query)
    /\ UsageBelowCap(query.query)
    /\ \E r \in {SearchSimilarContent(query, order, emb_ok, put_ok)} :
          /\ embedding_cache' = r.cache
          /\ vector_embeddings' = r.store
          /\ market_cache' = r.market
          /\ provider_calls' = CountCall(query.query, FALSE, r)
          /\ last' = [op |-> "search", query |-> query, t |-> now,
                      results |-> r.results, from_cache |-> r.from_cache,
                      found |-> r.found, embedded |-> r.embedded,
                      scored |-> r.scored, put |-> r.put,
                      raised |-> r.raised, db_ok |-> emb_ok /\ put_ok]
          /\ stock_data' = StockDataAfterSearch(stock_data, r.results)
    /\ UNCHANGED <<workers, now, provider_version>>

\* The request bodies sent to POST /search: one that is well formed, the same
\* with a symbol filter in upper and in lower case, and one for each way of
\* being malformed (threshold 1.5 and -0.5, limit 0 and 101, date_from after
\* date_to).
WellFormed == CHOOSE q \in Queries : q.query = "a"

Requests ==
    { WellFormed,
      [WellFormed EXCEPT !.symbols = <<"AAPL">>],
      [WellFormed EXCEPT !.symbols = <<"aapl">>],
      [WellFormed EXCEPT !.similarity_threshold = 225],
      [WellFormed EXCEPT !.similarity_threshold = -25],
      [WellFormed EXCEPT !.limit = 0],
      [WellFormed EXCEPT !.limit = 101],
      [WellFormed EXCEPT !.date_from = 1, !.date_to = 0] }

\* The constraints VectorSearchQuery declares: limit ge=1 le=100,
\* similarity_threshold ge=0.0 le=1.0.  It declares none on the two dates.
ValidSearchQuery(payload) ==
    /\ payload.limit >= 1
    /\ payload.limit <= 100
    /\ payload.similarity_threshold >= 0
    /\ payload.similarity_threshold <= 100

\* POST /search: the body is validated into a VectorSearchQuery before the
\* handler runs; a body that fails is answered 422 and the handler never runs.
SearchStockData(payload, order) ==
    IF ValidSearchQuery(payload)
    THEN SearchCall(payload, order, TRUE, TRUE)
    ELSE /\ last' = [op |-> "rejected", query |-> payload]
         /\ UNCHANGED <<workers, now, provider_version, embedding_cache,
                        vector_embeddings, stock_data, market_cache,
                        provider_calls>>

----------------------------------------------------------------------------
\* cleanup_expired_cache.  commit_ok says whether the final commit succeeds;
\* the memory cache has been purged by then.

ExpiredItems_Live == {k \in DOMAIN market_cache : market_cache[k].expires_at > now}

ExpiredItems == {k \in DOMAIN market_cache : market_cache[k].expires_at < now}

OldEmbeddingItems_Late ==
    {k \in DOMAIN vector_embeddings :
        vector_embeddings[k].last_used < now - RetentionWindow - 1}

OldEmbeddingItems ==
    {k \in DOMAIN vector_embeddings :
        vector_embeddings[k].last_used < now - RetentionWindow}

CleanupExpiredCache(commit_ok) ==
    /\ embedding_cache' =
           Restrict(embedding_cache, DOMAIN embedding_cache \ OldEmbeddingItems)
    /\ IF commit_ok
       THEN /\ market_cache' = Restrict(market_cache, DOMAIN market_cache \ ExpiredItems)
            /\ vector_embeddings' =
                   Restrict(vector_embeddings, DOMAIN vector_embeddings \ OldEmbeddingItems)
       ELSE UNCHANGED <<market_cache, vector_embeddings>>
    /\ provider_calls' =
           [c \in Contents |->
               IF GenerateCacheKey(c, ModelName) \in OldEmbeddingItems
               THEN 0 ELSE provider_calls[c]]
    /\ last' = [op |-> "cleanup", t |-> now, commit_ok |-> commit_ok,
                expired |-> ExpiredItems, old |-> OldEmbeddingItems,
                purged |-> OldEmbeddingItems \cap DOMAIN embedding_cache]
    /\ UNCHANGED <<workers, now, provider_version, stock_data>>

----------------------------------------------------------------------------
\* StockController.create_stock_data

Upper(symbol) ==
    CASE symbol = "aapl" -> "AAPL"
      [] symbol = "msft" -> "MSFT"
      [] OTHER -> symbol

StockInputs ==
    { [symbol |-> "AAPL", data_type |-> "news", content |-> "a"],
      [symbol |-> "aapl", data_type |-> "analysis", content |-> "b"] }

NextId == IF DOMAIN stock_data = {} THEN 1
          ELSE (CHOOSE i \in DOMAIN stock_data : \A j \in DOMAIN stock_data : j <= i) + 1

CreateStockData(stock, db_ok) ==
    /\ Cardinality(DOMAIN stock_data) < MaxRecords
    /\ UsageBelowCap(stock.content)
    /\ \E r \in {GetEmbedding(embedding_cache, vector_embeddings, stock.content,
                                FALSE, db_ok)} :
          LET db_stock_data == [symbol |-> Upper(stock.symbol),
                                data_type |-> stock.data_type,
                                content |-> stock.content,
                                embedding_id |-> r.id,
                                similarity_score |-> NoScore,
                                data_timestamp |-> now,
                                created_at |-> now]
          IN
          /\ embedding_cache' = r.cache
          /\ vector_embeddings' = r.store
          /\ provider_calls' = CountCall(stock.content, FALSE, r)
          /\ IF r.path = "error"     \* except: db.rollback(); raise
             THEN /\ stock_data' = stock_data
                  /\ last' = [op |-> "create", id |-> 0, embedding_id |-> NULL]
             ELSE /\ stock_data' = Put(stock_data, NextId, db_stock_data)
                  /\ last' = [op |-> "create", id |-> NextId, embedding_id |-> r.id]
    /\ UNCHANGED <<workers, now, provider_version, market_cache>>

----------------------------------------------------------------------------
\* StockController.get_stock_data_by_id, update_stock_data, delete_stock_data

\* The ids requests name: those of the rows there can be, and one beyond.
StockIds == 1..(MaxRecords + 1)

\* StockDataUpdate bodies; NULL stands for a field the body leaves unset.
Updates ==
    { [content |-> c, symbol |-> NULL] : c \in Contents }
    \cup { [content |-> NULL, symbol |-> "msft"] }

GetStockDataById(stock_data_id) ==
    /\ last' = IF stock_data_id \in DOMAIN stock_data
               THEN [op |-> "get", id |-> stock_data_id, outcome |-> "ok",
                     embedding_id |-> stock_data[stock_data_id].embedding_id]
               ELSE [op |-> "get", id |-> stock_data_id, outcome |-> "not_found",
                     embedding_id |-> NULL]
    /\ UNCHANGED <<workers, now, provider_version, embedding_cache,
                   vector_embeddings, stock_data, market_cache, provider_calls>>

ApplyUpdates_KeepReference(row, update, embedding_id) ==
    [row EXCEPT
        !.content = IF update.content # NULL THEN update.content ELSE @,
        !.symbol = IF update.symbol # NULL THEN update.symbol ELSE @]

\* `for field, value in update_data.items(): setattr(db_stock_data, field, value)`
\* with update_data["embedding_id"] set when the body carries content
ApplyUpdates(row, update, embedding_id) ==
    [row EXCEPT
        !.content = IF update.content # NULL THEN update.content ELSE @,
        !.embedding_id = IF update.content # NULL THEN embedding_id ELSE @,
        !.symbol = IF update.symbol # NULL THEN update.symbol ELSE @]

UpdateStockData_EmbedFirst(stock_data_id, update, emb_ok, commit_ok) ==
    \E r \in {IF update.content = NULL
               THEN [cache |-> embedding_cache, store |-> vector_embeddings,
                     id |-> NULL, path |-> "none", provider |-> 0]
               ELSE GetEmbedding(embedding_cache, vector_embeddings,
                                 update.content, TRUE, emb_ok)} :
        LET found == stock_data_id \in DOMAIN stock_data
            done == found /\ r.path # "error" /\ commit_ok
        IN /\ embedding_cache' = r.cache
           /\ vector_embeddings' = r.store
           /\ provider_calls' = provider_calls
           /\ stock_data' =
                  IF done
                  THEN Put(stock_data, stock_data_id,
                           ApplyUpdates(stock_data[stock_data_id], update, r.id))
                  ELSE stock_data
           /\ last' = [op |-> "update", id |-> stock_data_id, update |-> update,
                       outcome |-> IF ~found THEN "not_found"
                                   ELSE IF done THEN "ok" ELSE "error"]
           /\ UNCHANGED <<workers, now, provider_version, market_cache>>

\* emb_ok: the store accepts the INSERT of get_embedding; commit_ok: it
\* accepts the commit of the row.
UpdateStockData(stock_data_id, update, emb_ok, commit_ok) ==
    IF stock_data_id \notin DOMAIN stock_data
    THEN \* raise KeyError, before anything else is done
         /\ last' = [op |-> "update", id |-> stock_data_id, update |-> update,
                     outcome |-> "not_found"]
         /\ UNCHANGED <<workers, now, provider_version, embedding_cache,
                        vector_embeddings, stock_data, market_cache,
                        provider_calls>>
    ELSE IF update.content = NULL
    THEN /\ stock_data' =
                IF commit_ok
                THEN Put(stock_data, stock_data_id,
                         ApplyUpdates(stock_data[stock_data_id], update, NULL))
                ELSE stock_data
         /\ last' = [op |-> "update", id |-> stock_data_id, update |-> update,
                     outcome |-> IF commit_ok THEN "ok" ELSE "error"]
         /\ UNCHANGED <<workers, now, provider_version, embedding_cache,
                        vector_embeddings, market_cache, provider_calls>>
    ELSE \E r \in {GetEmbedding(embedding_cache, vector_embeddings,
                                 update.content, TRUE, emb_ok)} :
          /\ embedding_cache' = r.cache
          /\ vector_embeddings' = r.store
          /\ provider_calls' = CountCall(update.content, TRUE, r)
          /\ stock_data' =
                 IF r.path # "error" /\ commit_ok
                 THEN Put(stock_data, stock_data_id,
                          ApplyUpdates(stock_data[stock_data_id], update, r.id))
                 ELSE stock_data
          /\ last' = [op |-> "update", id |-> stock_data_id, update |-> update,
                      outcome |-> IF r.path # "error" /\ commit_ok
                                  THEN "ok" ELSE "error"]
          /\ UNCHANGED <<workers, now, provider_version, market_cache>>

DeleteStockData_Invalidating(stock_data_id, commit_ok) ==
    /\ stock_data' =
           IF stock_data_id \in DOMAIN stock_data /\ commit_ok
           THEN Restrict(stock_data, DOMAIN stock_data \ {stock_data_id})
           ELSE stock_data
    /\ market_cache' =
           IF stock_data_id \in DOMAIN stock_data /\ commit_ok
           THEN EmptyMap ELSE market_cache
    /\ last' = [op |-> "delete", id |-> stock_data_id,
                outcome |-> IF stock_data_id \notin DOMAIN stock_data
                            THEN "not_found"
                            ELSE IF commit_ok THEN "ok" ELSE "error"]
    /\ UNCHANGED <<workers, now, provider_version, embedding_cache,
                   vector_embeddings, provider_calls>>

DeleteStockData(stock_data_id, commit_ok) ==
    /\ stock_data' =
           IF stock_data_id \in DOMAIN stock_data /\ commit_ok
           THEN Restrict(stock_data, DOMAIN stock_data \ {stock_data_id})
           ELSE stock_data
    /\ last' = [op |-> "delete", id |-> stock_data_id,
                outcome |-> IF stock_data_id \notin DOMAIN stock_data
                            THEN "not_found"
                            ELSE IF commit_ok THEN "ok" ELSE "error"]
    /\ UNCHANGED <<workers, now, provider_version, embedding_cache,
                   vector_embeddings, market_cache, provider_calls>>

----------------------------------------------------------------------------
\* Environment

\* Time passes between two calls; `last` is only kept until then.
Tick(limit) ==
    /\ now < limit
    /\ now' = now + 1
    /\ last' = [op |-> "tick"]
    /\ UNCHANGED <<workers, provider_version, embedding_cache, vector_embeddings,
                   stock_data, market_cache, provider_calls>>

\* The provider's weights change (the tests swap the encoder's return value).
ProviderChange ==
    /\ \E v \in Versions \ {provider_version} : provider_version' = v
    /\ UNCHANGED <<workers, now, embedding_cache, vector_embeddings, stock_data,
                   market_cache, provider_calls, last>>

----------------------------------------------------------------------------
\* Calls that run concurrently.  The handlers of one process never interleave,
\* so concurrent calls run in different server processes on the same store;
\* each statement sent to the store is one step.

Workers == {1, 2}

NoQuery == [query |-> NULL]

IdleWorker(memory) ==
    [pc |-> "idle", op |-> NULL, content |-> NULL, query |-> NoQuery,
     memory |-> memory, vector |-> <<>>, results |-> <<>>,
     row |-> <<>>,       \* the row the session has loaded, if any
     missed |-> FALSE, conflict |-> FALSE, raised |-> FALSE]

AllIdle == \A w \in Workers : workers[w].pc = "idle"

\* get_embedding lines 63-87 in process w: the memory check and the SELECT.
\* On a hit the call is over (after is the next statement of the caller); on
\* a full miss the provider and the INSERT are still to come.
LookupEmbedding(w, me, content, after) ==
    LET cache_key == GenerateCacheKey(content, ModelName) IN
    IF cache_key \in DOMAIN me.memory \/ cache_key \in DOMAIN vector_embeddings
    THEN \E r \in {GetEmbedding(me.memory, vector_embeddings, content, FALSE, TRUE)} :
            /\ vector_embeddings' = r.store
            /\ workers' = [workers EXCEPT ![w] =
                              [me EXCEPT !.pc = after, !.content = content,
                                         !.memory = r.cache, !.vector = r.vector]]
    ELSE /\ vector_embeddings' = vector_embeddings
         /\ workers' = [workers EXCEPT ![w] =
                           [me EXCEPT !.pc = "insert", !.content = content,
                                      !.missed = (me.op = "get_embedding") \/ @]]

StartGetEmbedding(w, content) ==
    /\ workers[w].pc = "idle"
    /\ UsageBelowCap(content)
    /\ LookupEmbedding(w, [workers[w] EXCEPT !.op = "get_embedding"], content, "done")
    /\ UNCHANGED <<now, provider_version, embedding_cache, stock_data,
                   market_cache, provider_calls, last>>

\* get_embedding lines 89-114 in process w: what a call does once both lookups
\* missed is what a forced call does from the start.
InsertEmbedding(w) ==
    LET me == workers[w] IN
    /\ me.pc = "insert"
    /\ \E r \in {GetEmbedding(me.memory, vector_embeddings, me.content, TRUE, TRUE)} :
          /\ vector_embeddings' = r.store
          /\ workers' = [workers EXCEPT ![w] =
                [me EXCEPT !.pc = IF r.path = "error" \/ me.op = "get_embedding"
                                  THEN "done" ELSE "rank",
                           !.memory = r.cache, !.vector = r.vector,
                           !.raised = (r.path = "error"),
                           !.conflict = (r.id \in DOMAIN vector_embeddings)]]
    /\ UNCHANGED <<now, provider_version, embedding_cache, stock_data,
                   market_cache, provider_calls, last>>

\* search_similar_content lines 122-127 in process w
StartSearch(w, query) ==
    LET me == workers[w] IN
    /\ me.pc = "idle"
    /\ HitBelowCap(query)
    /\ \E c \in {GetCachedSearchResults(market_cache, GenerateSearchCacheKey(query))} :
          /\ market_cache' = c.cache
          /\ workers' = [workers EXCEPT ![w] =
                IF c.found /\ c.results # <<>>
                THEN [me EXCEPT !.pc = "done", !.op = "search", !.query = query,
                                !.content = query.query, !.results = c.results]
                ELSE [me EXCEPT !.pc = "embed", !.op = "search", !.query = query,
                                !.content = query.query, !.missed = TRUE]]
    /\ UNCHANGED <<now, provider_version, embedding_cache, vector_embeddings,
                   stock_data, provider_calls, last>>

\* search_similar_content line 130 in process w, up to the SELECT of get_embedding
EmbedQuery(w) ==
    /\ workers[w].pc = "embed"
    /\ UsageBelowCap(workers[w].content)
    /\ LookupEmbedding(w, workers[w], workers[w].content, "rank")
    /\ UNCHANGED <<now, provider_version, embedding_cache, stock_data,
                   market_cache, provider_calls, last>>

\* search_similar_content lines 132-182 in process w
Rank(w, order) ==
    LET me == workers[w] IN
    /\ me.pc = "rank"
    /\ \E rk \in {RankCandidates(me.query, order, me.vector, vector_embeddings)} :
          workers' = [workers EXCEPT ![w] =
                [me EXCEPT !.pc = IF rk.empty \/ rk.mismatch THEN "done" ELSE "put",
                           !.results = rk.results,
                           !.raised = ~rk.empty /\ rk.mismatch]]
    /\ UNCHANGED <<now, provider_version, embedding_cache, vector_embeddings,
                   stock_data, market_cache, provider_calls, last>>

\* search_similar_content lines 185-188 in process w
PutResults(w) ==
    LET me == workers[w]
        search_cache_key == GenerateSearchCacheKey(me.query)
    IN
    /\ me.pc = "put"
    /\ market_cache' = CacheSearchResults(market_cache, search_cache_key,
                                          me.results, TRUE)
    /\ workers' = [workers EXCEPT ![w] =
          [me EXCEPT !.pc = "done",
                     !.conflict = @ \/ search_cache_key \in DOMAIN market_cache]]
    /\ UNCHANGED <<now, provider_version, embedding_cache, vector_embeddings,
                   stock_data, provider_calls, last>>

\* the response of process w has been delivered
Return(w) ==
    /\ workers[w].pc = "done"
    /\ workers' = [workers EXCEPT ![w] = IdleWorker(workers[w].memory)]
    /\ UNCHANGED <<now, provider_version, embedding_cache, vector_embeddings,
                   stock_data, market_cache, provider_calls, last>>

----------------------------------------------------------------------------
\* The provider breaks: it raises, or it answers with another dimension.
ProviderFault ==
    /\ \E v \in {ProviderDown, OtherDimension} \ {provider_version} :
          provider_version' = v
    /\ UNCHANGED <<workers, now, embedding_cache, vector_embeddings, stock_data,
                   market_cache, provider_calls, last>>

\* The process restarts: the memory cache is lost, the store stays.
Restart ==
    /\ embedding_cache # EmptyMap
    /\ embedding_cache' = EmptyMap
    /\ provider_calls' = [c \in Contents |-> 0]
    /\ last' = [op |-> "restart"]
    /\ UNCHANGED <<workers, now, provider_version, vector_embeddings, stock_data,
                   market_cache>>

Init ==
    /\ now = 0
    /\ provider_version = 1
    /\ embedding_cache = EmptyMap
    /\ vector_embeddings = EmptyMap
    /\ stock_data = EmptyMap
    /\ market_cache = EmptyMap
    /\ provider_calls = [c \in Contents |-> 0]
    /\ last = [op |-> "init"]
    /\ workers = [w \in Workers |-> IdleWorker(EmptyMap)]

\* The embedding endpoint with the janitor, a changing provider, restarts and
\* store failures.
NextEmbedding ==
    \/ \E c \in Contents, f \in BOOLEAN, ok \in BOOLEAN : GetEmbeddingCall(c, f, ok)
    \/ \E ok \in BOOLEAN : CleanupExpiredCache(ok)
    \/ ProviderChange
    \/ Restart
    \/ Tick(MaxTime)

SpecEmbedding == Init /\ [][NextEmbedding]_vars

\* Content creation and search, the store enumerating rows in any order.
Next ==
    \/ \E q \in Queries, ord \in Enumerations(DOMAIN stock_data) :
          SearchCall(q, ord, TRUE, TRUE)
    \/ \E st \in StockInputs : CreateStockData(st, TRUE)
    \/ Tick(MaxSearchTime)

Spec == Init /\ [][Next]_vars

\* The janitor next to content creation and search.  The enumeration order
\* plays no part in what the janitor selects, so rows come in id order.
SweepInputs == {st \in StockInputs : st.content = "a"}

IdOrder(S) == {s \in Enumerations(S) : \A i, j \in DOMAIN s : i < j => s[i] < s[j]}

NextSweep ==
    \/ \E q \in Queries, ord \in IdOrder(DOMAIN stock_data) :
          SearchCall(q, ord, TRUE, TRUE)
    \/ CleanupExpiredCache(TRUE)
    \/ \E st \in SweepInputs : CreateStockData(st, TRUE)
    \/ Tick(MaxTime)

SpecSweep == Init /\ [][NextSweep]_vars

\* Search and content creation with a provider that changes and breaks, a
\* store that refuses writes, and restarts.  The clock stands still, so only
\* the requests without a date filter are issued.
FaultQueries == {q \in Queries : q.date_from = NoTime /\ q.date_to = NoTime}

NextFaults ==
    \/ \E q \in FaultQueries, ord \in IdOrder(DOMAIN stock_data),
          emb_ok \in BOOLEAN, put_ok \in BOOLEAN :
          SearchCall(q, ord, emb_ok, put_ok)
    \/ \E st \in StockInputs : CreateStockData(st, TRUE)
    \/ ProviderChange
    \/ ProviderFault
    \/ Restart

SpecFaults == Init /\ [][NextFaults]_vars

\* The search endpoint with the bodies clients may send, next to content
\* creation.
NextRequests ==
    \/ \E rq \in Requests, ord \in Enumerations(DOMAIN stock_data) :
          SearchStockData(rq, ord)
    \/ \E st \in StockInputs : CreateStockData(st, TRUE)
    \/ Tick(MaxSearchTime)

SpecRequests == Init /\ [][NextRequests]_vars

\* The filter as a function of the request and the row.  The schema lets
\* data_timestamp be NULL (NoTime) and differ from created_at.
Times == 0..MaxTime

FilterRows ==
    { [symbol |-> "AAPL", data_type |-> "news", content |-> "a",
       embedding_id |-> NULL, similarity_score |-> NoScore,
       data_timestamp |-> dt, created_at |-> ct]
      : dt \in {NoTime} \cup Times, ct \in Times }

DateQueries ==
    { [WellFormed EXCEPT !.date_from = f, !.date_to = t]
      : f \in {NoTime} \cup Times, t \in {NoTime} \cup Times }

InitFilter ==
    /\ now = 0
    /\ provider_version = 1
    /\ embedding_cache = EmptyMap
    /\ vector_embeddings = EmptyMap
    /\ stock_data \in {Put(EmptyMap, 1, row) : row \in FilterRows}
    /\ market_cache = EmptyMap
    /\ provider_calls = [c \in Contents |-> 0]
    /\ last = [op |-> "init"]
    /\ workers = [w \in Workers |-> IdleWorker(EmptyMap)]

ApplyFilter(query) ==
    /\ last' = [op |-> "filter", query |-> query,
                passes |-> BuildFilterConditions(query, stock_data[1])]
    /\ UNCHANGED <<workers, now, provider_version, embedding_cache,
                   vector_embeddings, stock_data, market_cache, provider_calls>>

NextFilter == \E q \in DateQueries : ApplyFilter(q)

SpecFilter == InitFilter /\ [][NextFilter]_vars

\* The scoring step of search as a function of the two vectors it is given.
FloatVectors ==
    {<<x, y>> : x \in -MaxComponent..MaxComponent, y \in -MaxComponent..MaxComponent}

InitSimilarity ==
    /\ now = 0
    /\ provider_version = 1
    /\ embedding_cache = EmptyMap
    /\ vector_embeddings = EmptyMap
    /\ stock_data = EmptyMap
    /\ market_cache = EmptyMap
    /\ provider_calls = [c \in Contents |-> 0]
    /\ last \in {[op |-> "vectors", a |-> a, b |-> b] : a \in FloatVectors, b \in FloatVectors}
    /\ workers = [w \in Workers |-> IdleWorker(EmptyMap)]

ComputeSimilarity ==
    /\ last.op = "vectors"
    /\ last' = [op |-> "cosine", a |-> last.a, b |-> last.b,
                similarity |-> FloatCosineSimilarity(last.a, last.b)]
    /\ UNCHANGED <<workers, now, provider_version, embedding_cache,
                   vector_embeddings, stock_data, market_cache, provider_calls>>

NextSimilarity == ComputeSimilarity

SpecSimilarity == InitSimilarity /\ [][NextSimilarity]_vars

\* The record endpoints (create, get, update, delete) with a store that
\* refuses writes.  Ids are handed out in increasing order and not
\* beyond StockIds.
NextRecords ==
    \/ \E st \in StockInputs : NextId \in StockIds /\ CreateStockData(st, TRUE)
    \/ \E id \in StockIds : GetStockDataById(id)
    \/ \E id \in StockIds, u \in Updates, db_ok \in BOOLEAN :
          UpdateStockData(id, u, db_ok, db_ok)
    \/ \E id \in StockIds, commit_ok \in BOOLEAN : DeleteStockData(id, commit_ok)

SpecRecords == Init /\ [][NextRecords]_vars

\* Lookups of the result cache while time passes, with a provider whose
\* weights change, a store that refuses the writes of get_embedding, and
\* restarts: a search that found a cached row may go on as after a miss and
\* fail there.  The rows hold another text than the requests ask for, so a
\* request may match nothing.
LookupInputs == {st \in StockInputs : st.content = "b"}

NextLookups ==
    \/ \E q \in FaultQueries, ord \in IdOrder(DOMAIN stock_data), emb_ok \in BOOLEAN :
          SearchCall(q, ord, emb_ok, TRUE)
    \/ \E st \in LookupInputs : CreateStockData(st, TRUE)
    \/ ProviderChange
    \/ Restart
    \/ Tick(MaxSearchTime)

SpecLookups == Init /\ [][NextLookups]_vars

\* The fingerprint of a search request as a function of the request: two
\* requests are drawn, then fingerprinted.
FingerprintRequests ==
    [query : Contents,
     symbols : {<<>>, <<"AAPL">>, <<"AAPL", "MSFT">>, <<"MSFT", "AAPL">>},
     limit : {1, 2},
     similarity_threshold : {0, 25},
     include_news : BOOLEAN,
     include_analysis : BOOLEAN,
     date_from : {NoTime, 0},
     date_to : {NoTime, 1}]

InitFingerprint ==
    /\ now = 0
    /\ provider_version = 1
    /\ embedding_cache = EmptyMap
    /\ vector_embeddings = EmptyMap
    /\ stock_data = EmptyMap
    /\ market_cache = EmptyMap
    /\ provider_calls = [c \in Contents |-> 0]
    /\ workers = [w \in Workers |-> IdleWorker(EmptyMap)]
    /\ last \in {[op |-> "requests", a |-> a, b |-> b] :
                     a \in FingerprintRequests, b \in FingerprintRequests}

Fingerprint ==
    /\ last.op = "requests"
    /\ last' = [op |-> "fingerprints", a |-> last.a, b |-> last.b,
                key_a |-> GenerateSearchCacheKey(last.a),
                key_b |-> GenerateSearchCacheKey(last.b)]
    /\ UNCHANGED <<workers, now, provider_version, embedding_cache,
                   vector_embeddings, stock_data, market_cache, provider_calls>>

NextFingerprint == Fingerprint

SpecFingerprint == InitFingerprint /\ [][NextFingerprint]_vars

\* The cache table as the market data service uses it: _cache_data and
\* _get_cached_data, called with a key and an entry kind.
CacheKeys == {"F", "G"}
CacheKinds == {"price", "news"}
CacheData == {1, 2}

\* MarketDataService._cache_data: db.merge of a row without primary key is an
\* INSERT, refused when a row with the same cache_key (unique) exists,
\* whatever its kind; the failure is caught.
MarketCacheData(cache_key, cache_type, data, put_ok) ==
    /\ market_cache' =
           IF put_ok /\ cache_key \notin DOMAIN market_cache
           THEN Put(market_cache, cache_key,
                    [cache_value |-> data,
                     cache_type |-> cache_type,
                     expires_at |-> now + MarketCacheTtl,
                     hit_count |-> 0,
                     last_accessed |-> now])
           ELSE market_cache
    /\ last' = [op |-> "cache_data", cache_key |-> cache_key,
                cache_type |-> cache_type, data |-> data, put_ok |-> put_ok]
    /\ UNCHANGED <<workers, now, provider_version, embedding_cache,
                   vector_embeddings, stock_data, provider_calls>>

\* MarketDataService._get_cached_data
MarketGetCachedData(cache_key, cache_type) ==
    LET hit == /\ cache_key \in DOMAIN market_cache
               /\ market_cache[cache_key].cache_type = cache_type
               /\ market_cache[cache_key].expires_at > now
    IN /\ hit => market_cache[cache_key].hit_count < MaxCount
       /\ market_cache' =
              IF hit
              THEN Put(market_cache, cache_key,
                       [market_cache[cache_key] EXCEPT
                           !.hit_count = @ + 1, !.last_accessed = now])
              ELSE market_cache
       /\ last' = [op |-> "get_cached_data", cache_key |-> cache_key,
                   cache_type |-> cache_type, hit |-> hit,
                   value |-> IF hit THEN market_cache[cache_key].cache_value ELSE 0]
       /\ UNCHANGED <<workers, now, provider_version, embedding_cache,
                      vector_embeddings, stock_data, provider_calls>>

NextKinds ==
    \/ \E k \in CacheKeys, kind \in CacheKinds, d \in CacheData, put_ok \in BOOLEAN :
          MarketCacheData(k, kind, d, put_ok)
    \/ \E k \in CacheKeys, kind \in CacheKinds : MarketGetCachedData(k, kind)
    \/ Tick(MaxSearchTime)

SpecKinds == Init /\ [][NextKinds]_vars

\* Content creation, update of the first row's text, search and the janitor
\* while time passes, with a store that accepts every write.
TextUpdates == {u \in Updates : u.content = "b"}

NextReferences ==
    \/ \E st \in SweepInputs : CreateStockData(st, TRUE)
    \/ \E u \in TextUpdates : 1 \in DOMAIN stock_data /\ UpdateStockData(1, u, TRUE, TRUE)
    \/ \E q \in FaultQueries, ord \in IdOrder(DOMAIN stock_data) :
          SearchCall(q, ord, TRUE, TRUE)
    \/ CleanupExpiredCache(TRUE)
    \/ Tick(MaxTime)

SpecReferences == Init /\ [][NextReferences]_vars

\* Search next to creation, update and deletion of content while time passes:
\* the content index changes under the cached results.
NextStale ==
    \/ \E q \in FaultQueries, ord \in IdOrder(DOMAIN stock_data) :
          SearchCall(q, ord, TRUE, TRUE)
    \/ \E st \in SweepInputs : NextId \in StockIds /\ CreateStockData(st, TRUE)
    \/ \E u \in TextUpdates : 1 \in DOMAIN stock_data /\ UpdateStockData(1, u, TRUE, TRUE)
    \/ \E id \in DOMAIN stock_data : DeleteStockData(id, TRUE)
    \/ Tick(MaxSearchTime)

SpecStale == Init /\ [][NextStale]_vars

\* Hits in two processes, statement by statement: the SELECT loads the row
\* into the session, the counter is increased on the loaded object, and the
\* commit writes the new value of the changed columns (UPDATE ... SET
\* hit_count = <value> WHERE id = <id>).

\* _get_cached_search_results lines 238-246 in process w
SelectCachedItem(w, query) ==
    LET me == workers[w]
        k == GenerateSearchCacheKey(query)
    IN
    /\ me.pc = "idle"
    /\ CachedItemFound(market_cache, k)
    /\ market_cache[k].hit_count < MaxCount
    /\ workers' = [workers EXCEPT ![w] =
          [me EXCEPT !.pc = "hit", !.op = "search", !.query = query,
                     !.row = <<market_cache[k]>>]]
    /\ UNCHANGED <<now, provider_version, embedding_cache, vector_embeddings,
                   stock_data, market_cache, provider_calls, last>>

\* what the commit of lines 249-252 writes: the counter of the loaded row
\* plus one
CommittedHitCount(loaded, stored) == loaded.hit_count + 1

\* _get_cached_search_results lines 249-255 in process w
CommitHit(w) ==
    LET me == workers[w]
        k == GenerateSearchCacheKey(me.query)
    IN
    /\ me.pc = "hit"
    /\ market_cache' =
           Put(market_cache, k,
               [market_cache[k] EXCEPT
                   !.hit_count = CommittedHitCount(me.row[1], market_cache[k]),
                   !.last_accessed = now])
    /\ workers' = [workers EXCEPT ![w] = IdleWorker(me.memory)]
    /\ last' = [op |-> "hit", w |-> w, key |-> k]
    /\ UNCHANGED <<now, provider_version, embedding_cache, vector_embeddings,
                   stock_data, provider_calls>>

\* get_embedding lines 66-76 in process w: the memory cache misses and the
\* SELECT finds the record
SelectEmbedding(w, content) ==
    LET me == workers[w]
        cache_key == GenerateCacheKey(content, ModelName)
    IN
    /\ me.pc = "idle"
    /\ cache_key \notin DOMAIN me.memory
    /\ cache_key \in DOMAIN vector_embeddings
    /\ vector_embeddings[cache_key].usage_count < MaxCount
    /\ workers' = [workers EXCEPT ![w] =
          [me EXCEPT !.pc = "used", !.op = "get_embedding", !.content = content,
                     !.row = <<vector_embeddings[cache_key]>>]]
    /\ UNCHANGED <<now, provider_version, embedding_cache, vector_embeddings,
                   stock_data, market_cache, provider_calls, last>>

\* what the commit of lines 80-83 writes: the counter of the loaded row plus one
CommittedUsageCount(loaded, stored) == loaded.usage_count + 1

\* get_embedding lines 80-87 in process w
CommitUsage(w) ==
    LET me == workers[w]
        cache_key == GenerateCacheKey(me.content, ModelName)
    IN
    /\ me.pc = "used"
    /\ vector_embeddings' =
           Put(vector_embeddings, cache_key,
               [vector_embeddings[cache_key] EXCEPT
                   !.usage_count = CommittedUsageCount(me.row[1],
                                                       vector_embeddings[cache_key]),
                   !.last_used = now])
    /\ workers' = [workers EXCEPT ![w] =
          IdleWorker(StoreInMemoryCache(me.memory, cache_key,
                                        me.row[1].embedding_vector))]
    /\ last' = [op |-> "use", w |-> w, key |-> cache_key]
    /\ UNCHANGED <<now, provider_version, embedding_cache, stock_data,
                   market_cache, provider_calls>>

\* A worker process restarts and loses its memory cache.
RestartWorker(w) ==
    /\ workers[w].pc = "idle"
    /\ workers[w].memory # EmptyMap
    /\ workers' = [workers EXCEPT ![w] = IdleWorker(EmptyMap)]
    /\ UNCHANGED <<now, provider_version, embedding_cache, vector_embeddings,
                   stock_data, market_cache, provider_calls, last>>

\* Content and cache rows are written by calls that run alone; the hits of
\* the two processes interleave.
NextCounters ==
    \/ AllIdle /\ \E st \in StockInputs : CreateStockData(st, TRUE)
    \/ AllIdle /\ \E q \in Queries, ord \in IdOrder(DOMAIN stock_data) :
                     SearchCall(q, ord, TRUE, TRUE)
    \/ \E w \in Workers, q \in Queries : SelectCachedItem(w, q)
    \/ \E w \in Workers : CommitHit(w)
    \/ \E w \in Workers, c \in Contents : SelectEmbedding(w, c)
    \/ \E w \in Workers : CommitUsage(w)
    \/ \E w \in Workers : RestartWorker(w)

SpecCounters == Init /\ [][NextCounters]_vars

----------------------------------------------------------------------------
\* StockController.ingest_news_data.  get_embedding and the controller share
\* one session: a commit inside get_embedding commits the rows the
\* controller has added, a rollback inside get_embedding discards them.

\* What market_service.get_stock_news returns: a list of articles.
NewsArticles ==
    { [content |-> "a", symbols |-> <<"AAPL">>],
      [content |-> "b", symbols |-> <<>>] }

ArticleLists == UNION {[1..n -> NewsArticles] : n \in 0..MaxRecords}

\* db.commit(): the pending rows are inserted in the order they were added
CommitSession(rows, pending) ==
    LET base == IF DOMAIN rows = {} THEN 0
                ELSE CHOOSE i \in DOMAIN rows : \A j \in DOMAIN rows : j <= i
    IN [id \in (DOMAIN rows) \cup {base + i : i \in DOMAIN pending} |->
           IF id \in DOMAIN rows THEN rows[id] ELSE pending[id - base]]

\* db.rollback(): the objects added since the last commit are expunged
RollbackSession(pending) == <<>>

\* article.symbols[0] if article.symbols else "GENERAL"
ArticleSymbol(article) ==
    IF article.symbols # <<>> THEN article.symbols[1] ELSE "GENERAL"

\* One pass of the loop of lines 299-334 over one article.  s is the state
\* of the call so far: the memory cache, the embedding store, the provider
\* call counts, the session's pending rows, the committed rows and
\* ingested_count.  write_ok says whether the INSERT of a new embedding
\* record succeeds; the store's faults are injected there only.
IngestArticle(s, article, write_ok) ==
    LET cache_key == GenerateCacheKey(article.content, ModelName)
        r == GetEmbedding(s.cache, s.store, article.content, FALSE,
                          write_ok \/ cache_key \in DOMAIN s.store)
        stock_data_row == [symbol |-> ArticleSymbol(article),
                           data_type |-> "news",
                           content |-> article.content,
                           embedding_id |-> r.id,
                           similarity_score |-> NoScore,
                           data_timestamp |-> now,
                           created_at |-> now]
        calls == IF r.provider = 1 /\ s.calls[article.content] < 2
                 THEN [s.calls EXCEPT ![article.content] = @ + 1]
                 ELSE s.calls
        committed == \/ r.path = "database"
                     \/ r.path = "computed" /\ cache_key \in DOMAIN r.store
        rolled_back == r.path = "computed" /\ cache_key \notin DOMAIN r.store
        pending == IF committed \/ rolled_back
                   THEN RollbackSession(s.pending) ELSE s.pending
        rows == IF committed THEN CommitSession(s.rows, s.pending) ELSE s.rows
    IN
    IF r.path = "error"      \* except: log.warning(...); continue
    THEN [s EXCEPT !.calls = calls]
    ELSE [cache |-> r.cache, store |-> r.store, calls |-> calls,
          pending |-> Append(pending, stock_data_row), rows |-> rows,
          count |-> s.count + 1]

RECURSIVE IngestArticles(_, _, _)
IngestArticles(s, articles, write_ok) ==
    IF articles = <<>> THEN s
    ELSE IngestArticles(IngestArticle(s, Head(articles), Head(write_ok)),
                        Tail(articles), Tail(write_ok))

\* ingest_news_data: the loop, then db.commit() on line 336; a failing commit
\* is answered by db.rollback() and raise.
IngestNewsData(articles, write_ok, commit_ok) ==
    LET s == IngestArticles([cache |-> embedding_cache,
                             store |-> vector_embeddings,
                             calls |-> provider_calls,
                             pending |-> <<>>, rows |-> stock_data,
                             count |-> 0],
                            articles, write_ok)
    IN
    /\ Cardinality(DOMAIN stock_data) + Len(articles) <= MaxRecords
    /\ \A k \in DOMAIN s.store : s.store[k].usage_count <= MaxCount
    /\ embedding_cache' = s.cache
    /\ vector_embeddings' = s.store
    /\ provider_calls' = s.calls
    /\ IF commit_ok
       THEN /\ stock_data' = CommitSession(s.rows, s.pending)
            /\ last' = [op |-> "ingest", outcome |-> "ok", count |-> s.count]
       ELSE /\ stock_data' = s.rows
            /\ last' = [op |-> "ingest", outcome |-> "raised", count |-> 0]
    /\ UNCHANGED <<workers, now, provider_version, market_cache>>

\* News is ingested while the provider changes, the process restarts, the
\* janitor runs and time passes.
NextIngest ==
    \/ \E articles \in ArticleLists :
          \E write_ok \in [DOMAIN articles -> BOOLEAN], commit_ok \in BOOLEAN :
             IngestNewsData(articles, write_ok, commit_ok)
    \/ ProviderChange
    \/ Restart
    \/ CleanupExpiredCache(TRUE)
    \/ Tick(MaxTime)

SpecIngest == Init /\ [][NextIngest]_vars

\* Two processes serving get_embedding and search calls step by step; content
\* is created and time passes while they are idle.
NextRace ==
    \/ \E w \in Workers, c \in Contents : StartGetEmbedding(w, c)
    \/ \E w \in Workers : InsertEmbedding(w)
    \/ \E w \in Workers, q \in FaultQueries : StartSearch(w, q)
    \/ \E w \in Workers : EmbedQuery(w)
    \/ \E w \in Workers, ord \in Enumerations(DOMAIN stock_data) : Rank(w, ord)
    \/ \E w \in Workers : PutResults(w)
    \/ \E w \in Workers : Return(w)
    \/ AllIdle /\ \E st \in StockInputs : CreateStockData(st, TRUE)
    \/ AllIdle /\ Tick(MaxSearchTime)

SpecRace == Init /\ [][NextRace]_vars

----------------------------------------------------------------------------
\* Claims about get_embedding and the eviction of embeddings, checked under
\* SpecEmbedding

C4_StoreHoldsComputed ==
    (last.op = "get_embedding" /\ last.path = "computed" /\ last.db_ok) =>
        /\ last.id = GenerateCacheKey(last.content, ModelName)
        /\ last.id \in DOMAIN embedding_cache
        /\ embedding_cache[last.id] = last.vector
        /\ last.id \in DOMAIN vector_embeddings
        /\ vector_embeddings[last.id].embedding_vector = last.vector

\* C6: after a successful sweep at time t no embedding row with
\* last_used < t - retention remains, and no id the sweep selected for
\* deletion is left in the memory cache.
C6_SweepEvictsOld ==
    [][CleanupExpiredCache(TRUE) =>
        /\ \A k \in DOMAIN vector_embeddings' :
              ~(vector_embeddings'[k].last_used < now - RetentionWindow)
        /\ \A k \in DOMAIN vector_embeddings \ DOMAIN vector_embeddings' :
              k \notin DOMAIN embedding_cache']_vars

\* a successful sweep deleted a row whose vector was in the memory cache
C6_Witness ==
    /\ last.op = "cleanup"
    /\ last.commit_ok
    /\ last.purged # {}
    /\ last.purged \cap DOMAIN vector_embeddings = {}

----------------------------------------------------------------------------
\* Claims about search and the result cache, checked under Spec; those about
\* the janitor (C5, C7) under SpecSweep

\* some call of search_similar_content for the query
SearchStep(query) ==
    \E ord \in Enumerations(DOMAIN stock_data), emb_ok \in BOOLEAN, put_ok \in BOOLEAN :
        SearchCall(query, ord, emb_ok, put_ok)

\* C2: a search request repeated back-to-back within the TTL (the store being
\* available to the first call) is served from the result cache and returns
\* the identical list, whatever list the first call produced.
C2_SecondServedFromCache ==
    [][\A q \in Queries :
          (/\ last.op = "search" /\ last.query = q /\ last.db_ok
           /\ now < last.t + CacheTtl
           /\ SearchStep(q))
          => (last'.from_cache /\ last'.results = last.results)]_vars

\* C3: after a search miss wrote its result under fingerprint F (the store
\* being available), the row for F holds the new payload and the expiry
\* now + TTL, whether or not a row for F existed.
C3_PutOverwrites ==
    (last.op = "search" /\ last.scored /\ last.db_ok) =>
        LET k == GenerateSearchCacheKey(last.query) IN
        /\ k \in DOMAIN market_cache
        /\ market_cache[k].cache_value = [results |-> MapSeq(last.results, ModelDump)]
        /\ market_cache[k].expires_at = last.t + CacheTtl

\* C5: after a successful sweep at time t no cache row with expires_at <= t
\* remains.
C5_NoExpiredAfterSweep ==
    (last.op = "cleanup" /\ last.commit_ok) =>
        \A k \in DOMAIN market_cache : market_cache[k].expires_at > last.t

\* C7: a sweep leaves every cache row with expires_at > now, every embedding
\* row with last_used >= now - retention together with its memory-cache entry,
\* and every stock_data row as they were.
C7_SweepFrame ==
    [][(\E ok \in BOOLEAN : CleanupExpiredCache(ok)) =>
        /\ \A k \in DOMAIN market_cache :
              market_cache[k].expires_at > now =>
                 k \in DOMAIN market_cache' /\ market_cache'[k] = market_cache[k]
        /\ \A k \in DOMAIN vector_embeddings :
              vector_embeddings[k].last_used >= now - RetentionWindow =>
                 /\ k \in DOMAIN vector_embeddings'
                 /\ vector_embeddings'[k] = vector_embeddings[k]
                 /\ k \in DOMAIN embedding_cache =>
                       /\ k \in DOMAIN embedding_cache'
                       /\ embedding_cache'[k] = embedding_cache[k]
        /\ stock_data' = stock_data]_vars

\* a sweep removed an expired cache row and an old embedding while a live
\* cache row, a recent embedding and a stock_data row stayed
C7_Witness ==
    /\ last.op = "cleanup"
    /\ last.expired # {}
    /\ last.old # {}
    /\ \E k \in DOMAIN market_cache : market_cache[k].expires_at > last.t
    /\ \E k \in DOMAIN vector_embeddings : k \in DOMAIN embedding_cache
    /\ stock_data # EmptyMap

\* C8: a lookup at time t returns a row only if its expires_at > t; an
\* expired row that is still in the table is a miss.
C8_LookupOnlyLive ==
    (last.op = "search" /\ (last.found \/ last.from_cache)) =>
        LET k == GenerateSearchCacheKey(last.query) IN
        /\ last.found
        /\ k \in DOMAIN market_cache
        /\ market_cache[k].expires_at > last.t

\* a search missed although an expired row for its key was still in the table
C8_Witness ==
    /\ last.op = "search"
    /\ ~last.found
    /\ GenerateSearchCacheKey(last.query) \in DOMAIN market_cache
    /\ market_cache[GenerateSearchCacheKey(last.query)].expires_at <= last.t

RequestedTypes(query) ==
    (IF query.include_news THEN {"news"} ELSE {})
    \cup (IF query.include_analysis THEN {"analysis"} ELSE {})

RowTimestamp(row) ==
    IF row.data_timestamp # NoTime THEN row.data_timestamp ELSE row.created_at

PassesRequestedFilters(query, row) ==
    /\ query.symbols # <<>> => row.symbol \in Range(query.symbols)
    /\ row.data_type \in RequestedTypes(query)
    /\ query.date_from # NoTime => RowTimestamp(row) >= query.date_from
    /\ query.date_to # NoTime => RowTimestamp(row) <= query.date_to

\* what a search that missed the cache must have scored for a row: the query
\* vector is the one get_embedding left in the memory cache
ExpectedResult(query, id) ==
    [content |-> stock_data[id].content,
     content_type |-> stock_data[id].data_type,
     symbol |-> stock_data[id].symbol,
     similarity_score |->
         CosineSimilarity(
             embedding_cache[GenerateCacheKey(query.query, ModelName)],
             vector_embeddings[stock_data[id].embedding_id].embedding_vector),
     timestamp |-> RowTimestamp(stock_data[id])]

ExpectedIds(query, Passes(_, _)) ==
    {id \in DOMAIN stock_data :
        /\ stock_data[id].embedding_id # NULL
        /\ stock_data[id].embedding_id \in DOMAIN vector_embeddings
        /\ Passes(query, stock_data[id])
        /\ ExpectedResult(query, id).similarity_score >= query.similarity_threshold}

ExactlyTheAdmitted(Passes(_, _)) ==
    (last.op = "search" /\ ~last.from_cache) =>
        LET q == last.query
            ids == ExpectedIds(q, Passes)
        IN /\ \A i \in DOMAIN last.results :
                 \E id \in ids : last.results[i] = ExpectedResult(q, id)
           /\ Len(last.results) =
                 (IF Cardinality(ids) < q.limit THEN Cardinality(ids) ELSE q.limit)
           /\ \A id \in ids :
                 (\A i \in DOMAIN last.results : last.results[i] # ExpectedResult(q, id))
                 => \A i \in DOMAIN last.results :
                       last.results[i].similarity_score
                           >= ExpectedResult(q, id).similarity_score

\* C10: a search that missed the cache returns exactly the rows that pass the
\* requested filters, have a resolvable embedding and score at least the
\* threshold, except those cut off by the limit, which rank lowest.
C10_ExactlyFilteredAboveThreshold == ExactlyTheAdmitted(PassesRequestedFilters)

\* The same statement for the filter the code builds.
ExactlyBuiltFilterAboveThreshold == ExactlyTheAdmitted(BuildFilterConditions)

----------------------------------------------------------------------------
\* C12: the number of results of a search never exceeds the request's limit,
\* for freshly computed lists and for lists served from the result cache.
C12_LimitRespected ==
    (last.op = "search" /\ ~last.raised) => Len(last.results) <= last.query.limit

\* a list served from the cache is as long as the limit although more rows
\* pass the filter and the threshold
C12_Witness ==
    /\ last.op = "search"
    /\ last.from_cache
    /\ Len(last.results) = last.query.limit
    /\ Cardinality(ExpectedIds(last.query, BuildFilterConditions)) > last.query.limit

----------------------------------------------------------------------------
\* the content types a request asks for
InclusionSet(query) ==
    (IF query.include_news THEN {"news"} ELSE {})
    \cup (IF query.include_analysis THEN {"analysis"} ELSE {})

\* C20: the content type of every result of a search belongs to the
\* inclusion set of its flags: news only with include_news, analysis only
\* with include_analysis; with both flags false neither is returned.
C20_ResultTypesInInclusionSet ==
    (last.op = "search" /\ ~last.raised) =>
        \A i \in DOMAIN last.results :
            last.results[i].content_type \in InclusionSet(last.query)

\* a search with both flags false returned an analysis row
BothFlagsFalseReturnsAnalysis ==
    /\ last.op = "search"
    /\ ~last.query.include_news
    /\ ~last.query.include_analysis
    /\ \E i \in DOMAIN last.results : last.results[i].content_type = "analysis"

----------------------------------------------------------------------------
\* Claims checked under SpecFaults

\* the rows a search that missed the cache selects and can resolve
Candidates(query) ==
    {id \in DOMAIN stock_data :
        /\ stock_data[id].embedding_id # NULL
        /\ stock_data[id].embedding_id \in DOMAIN vector_embeddings
        /\ BuildFilterConditions(query, stock_data[id])}

Returned(query, id) ==
    \E i \in DOMAIN last.results : last.results[i] = ExpectedResult(query, id)

\* C11 as stated: with threshold 0 every filtered candidate with a resolvable
\* embedding is admitted (it is in the list unless the limit cut the list).
C11_ThresholdZeroAdmitsAll ==
    (/\ last.op = "search" /\ last.scored
     /\ last.query.similarity_threshold = 0) =>
        \A id \in Candidates(last.query) :
            Returned(last.query, id) \/ Len(last.results) = last.query.limit

\* C11 amended: with threshold 0 every such candidate whose similarity is not
\* negative is admitted, and no candidate with a negative similarity is.
C11_ThresholdZeroAdmitsNonNegative ==
    (/\ last.op = "search" /\ last.scored
     /\ last.query.similarity_threshold = 0) =>
        \A id \in Candidates(last.query) :
            IF ExpectedResult(last.query, id).similarity_score >= 0
            THEN Returned(last.query, id) \/ Len(last.results) = last.query.limit
            ELSE ~Returned(last.query, id)

\* a threshold-0 search admitted one candidate and dropped another, whose
\* similarity is negative
C11_Witness ==
    /\ last.op = "search" /\ last.scored
    /\ last.query.similarity_threshold = 0
    /\ last.results # <<>>
    /\ \E id \in Candidates(last.query) :
          ExpectedResult(last.query, id).similarity_score < 0

----------------------------------------------------------------------------
\* Claims checked under SpecRace

\* both processes have completed a call for the same request, and both missed
BothMissed(op) ==
    /\ \A w \in Workers :
          /\ workers[w].pc = "done"
          /\ workers[w].op = op
          /\ workers[w].missed
    /\ \A v, w \in Workers :
          /\ workers[v].content = workers[w].content
          /\ workers[v].query = workers[w].query

\* The part of C13 about get_embedding: two concurrent calls on a full miss
\* for the same content complete without error, return equal vectors and leave
\* the record for the id in the store.
ConcurrentEmbeddingMissesConverge ==
    BothMissed("get_embedding") =>
        /\ \A w \in Workers : ~workers[w].raised
        /\ \A v, w \in Workers : workers[v].vector = workers[w].vector
        /\ \A w \in Workers :
              GenerateCacheKey(workers[w].content, ModelName)
                  \in DOMAIN vector_embeddings

\* C13: two concurrent get_embedding calls on a full miss for the same content,
\* or two concurrent searches with the same fingerprint that both miss, both
\* complete without error and return equal results, and afterwards the store
\* holds the one record for the key.
C13_ConcurrentMissesConverge ==
    /\ ConcurrentEmbeddingMissesConverge
    /\ BothMissed("search") =>
          /\ \A w \in Workers : ~workers[w].raised
          /\ \A v, w \in Workers : workers[v].results = workers[w].results
          /\ \A w \in Workers :
                GenerateSearchCacheKey(workers[w].query) \in DOMAIN market_cache

\* Two searches with the same fingerprint that both missed returned different
\* lists.
RacingSearchesDiffer ==
    /\ BothMissed("search")
    /\ \E v, w \in Workers : workers[v].results # workers[w].results

\* C15: no failure of a durable cache write on the search path makes search
\* fail: whatever writes the store refuses (the usage update of the query
\* embedding, its INSERT, the INSERT of the result row), search returns the
\* list it returns when the store accepts them.
C15_CacheWriteFailureNeverFailsSearch ==
    [][\A q \in FaultQueries, ord \in IdOrder(DOMAIN stock_data),
          emb_ok \in BOOLEAN, put_ok \in BOOLEAN :
          SearchCall(q, ord, emb_ok, put_ok) =>
              \E ok \in {SearchSimilarContent(q, ord, TRUE, TRUE)} :
                  /\ last'.raised = ok.raised
                  /\ last'.results = ok.results]_vars

\* a search raised although the provider works and every stored vector has
\* the dimension of the query vector: the store refused the usage update of
\* the query embedding
SearchFailedOnUsageUpdate ==
    /\ last.op = "search"
    /\ last.raised
    /\ ~last.db_ok
    /\ provider_version \in Versions
    /\ GenerateCacheKey(last.query.query, ModelName) \in DOMAIN vector_embeddings
    /\ GenerateCacheKey(last.query.query, ModelName) \notin DOMAIN embedding_cache

\* get_embedding for the content will ask the provider
ReachesProvider(content) ==
    /\ GenerateCacheKey(content, ModelName) \notin DOMAIN embedding_cache
    /\ GenerateCacheKey(content, ModelName) \notin DOMAIN vector_embeddings

\* the search finds no usable cached list and will ask the provider
SearchReachesProvider(query) ==
    /\ ReachesProvider(query.query)
    /\ \E c \in {GetCachedSearchResults(market_cache, GenerateSearchCacheKey(query))} :
          ~(c.found /\ c.results # <<>>)

\* The lookup may have counted a hit on a row it then did not use; no row is
\* added and no stored list changes.
NoResultRowWritten ==
    /\ DOMAIN market_cache' = DOMAIN market_cache
    /\ \A k \in DOMAIN market_cache :
          /\ market_cache'[k].cache_value = market_cache[k].cache_value
          /\ market_cache'[k].expires_at = market_cache[k].expires_at

\* C17: when the provider fails or returns a vector of the wrong dimension,
\* the get_embedding that asked it, and the search or creation around it,
\* fails, and nothing is stored: no embedding record, no memory entry, no
\* result row (and no content row).
C17_ProviderFailureStoresNothing ==
    [][(provider_version \in {ProviderDown, OtherDimension}) =>
         /\ \A q \in FaultQueries, ord \in IdOrder(DOMAIN stock_data),
               emb_ok \in BOOLEAN, put_ok \in BOOLEAN :
               (SearchReachesProvider(q) /\ SearchCall(q, ord, emb_ok, put_ok)) =>
                   /\ last'.raised
                   /\ UNCHANGED <<embedding_cache, vector_embeddings>>
                   /\ NoResultRowWritten
         /\ \A st \in StockInputs :
               (ReachesProvider(st.content) /\ CreateStockData(st, TRUE)) =>
                   /\ last'.id = 0
                   /\ UNCHANGED <<embedding_cache, vector_embeddings, stock_data>>]_vars

\* the part of C17 about a provider that raises
C17_RaisingProviderStoresNothing ==
    [][(provider_version = ProviderDown) =>
         /\ \A q \in FaultQueries, ord \in IdOrder(DOMAIN stock_data),
               emb_ok \in BOOLEAN, put_ok \in BOOLEAN :
               (SearchReachesProvider(q) /\ SearchCall(q, ord, emb_ok, put_ok)) =>
                   /\ last'.raised
                   /\ UNCHANGED <<embedding_cache, vector_embeddings>>
                   /\ NoResultRowWritten
         /\ \A st \in StockInputs :
               (ReachesProvider(st.content) /\ CreateStockData(st, TRUE)) =>
                   /\ last'.id = 0
                   /\ UNCHANGED <<embedding_cache, vector_embeddings, stock_data>>]_vars

\* a vector of the other dimension was accepted: it is the stored record of a
\* content row that was created with it
WrongDimensionStored ==
    /\ provider_version = OtherDimension
    /\ last.op = "create"
    /\ last.id # 0
    /\ last.embedding_id \in DOMAIN vector_embeddings
    /\ vector_embeddings[last.embedding_id].embedding_vector
           = Encode(stock_data[last.id].content, OtherDimension)
    /\ embedding_cache[last.embedding_id]
           = Encode(stock_data[last.id].content, OtherDimension)

\* The rows the search scores once get_embedding has left the store as
\* `store`: those that pass the filter and whose embedding record exists.
Scored(query, store) ==
    {id \in DOMAIN stock_data :
        /\ stock_data[id].embedding_id # NULL
        /\ BuildFilterConditions(query, stock_data[id])
        /\ stock_data[id].embedding_id \in DOMAIN store}

\* the last call was a search that embedded its query and went on to select
\* rows, one of which has a stored vector of another dimension than the
\* query's
ScoredMismatch ==
    /\ last.op = "search"
    /\ ~last.from_cache
    /\ last.embedded
    /\ \E id \in Scored(last.query, vector_embeddings) :
          Len(vector_embeddings[stock_data[id].embedding_id].embedding_vector)
              # Len(embedding_cache[GenerateCacheKey(last.query.query, ModelName)])

\* C18: when the query vector and the vector of some scored candidate differ
\* in dimension, the search fails: it returns no list and writes no result
\* row; so a search that returns a list has scored vectors of the query's
\* dimension only.
C18_DimensionMismatchFails ==
    [][ScoredMismatch' =>
          /\ last'.raised
          /\ last'.results = <<>>
          /\ ~last'.put
          /\ NoResultRowWritten]_vars

\* a search raised while the provider was working: a content row written
\* under other weights has a vector whose dimension is not the query's
C18_Witness ==
    /\ ScoredMismatch
    /\ last.raised
    /\ provider_version \in Versions

----------------------------------------------------------------------------
\* Claims checked under SpecRequests

OutOfRange(rq) ==
    \/ rq.similarity_threshold < 0 \/ rq.similarity_threshold > 100
    \/ rq.limit < 1 \/ rq.limit > 100

DatesReversed(rq) ==
    rq.date_from # NoTime /\ rq.date_to # NoTime /\ rq.date_from > rq.date_to

Rejects(rq) ==
    \A ord \in Enumerations(DOMAIN stock_data) :
        SearchStockData(rq, ord) =>
            /\ last'.op = "rejected"
            /\ UNCHANGED <<embedding_cache, vector_embeddings, stock_data,
                           market_cache, provider_calls>>

\* C16: a search request with threshold outside [0,1], limit outside [1,100]
\* or date_from later than date_to is rejected before any store is read or
\* written.
C16_MalformedRequestRejected ==
    [][\A rq \in Requests : (OutOfRange(rq) \/ DatesReversed(rq)) => Rejects(rq)]_vars

\* the part of C16 about threshold and limit alone
OutOfRangeRequestRejected ==
    [][\A rq \in Requests : OutOfRange(rq) => Rejects(rq)]_vars

\* a request with date_from after date_to was served: the search ran, read
\* the store and stored the embedding of the query text
ReversedDatesServed ==
    /\ last.op = "search"
    /\ DatesReversed(last.query)
    /\ last.embedded
    /\ ~last.raised
    /\ GenerateCacheKey(last.query.query, ModelName) \in DOMAIN vector_embeddings

\* the content row is one of the results of the last search
InResults(id) ==
    \E i \in DOMAIN last.results :
        /\ last.results[i].content = stock_data[id].content
        /\ last.results[i].symbol = stock_data[id].symbol
        /\ last.results[i].content_type = stock_data[id].data_type

EqualIgnoringCase(s, t) == Upper(s) = Upper(t)

\* C19: symbols are compared case-insensitively: a content row passes the
\* symbol filter of a search iff its symbol equals a symbol of the request
\* ignoring letter case.  The requests with a symbol filter have no other
\* filter, admit every score and have room for every row, so passing the
\* filter is being returned.
C19_SymbolsCompareIgnoringCase ==
    (/\ last.op = "search"
     /\ last.query.symbols # <<>>
     /\ ~last.from_cache
     /\ ~last.raised) =>
        \A id \in DOMAIN stock_data :
            InResults(id) <=>
                \E i \in DOMAIN last.query.symbols :
                    EqualIgnoringCase(stock_data[id].symbol, last.query.symbols[i])

\* a search for the symbol in lower case returned nothing although a row with
\* that symbol, stored in upper case, exists
LowerCaseSymbolFindsNothing ==
    /\ last.op = "search"
    /\ last.query.symbols = <<"aapl">>
    /\ ~last.from_cache
    /\ last.results = <<>>
    /\ \E id \in DOMAIN stock_data : stock_data[id].symbol = "AAPL"

----------------------------------------------------------------------------
\* Claims checked under SpecEmbedding: the identifier

\* the model the service is configured with, and the one the tests name
ModelNames == {ModelName, "test-model"}

\* the id get_embedding returns for the content in a fresh process on an
\* empty store
FirstId(content) == GetEmbedding(EmptyMap, EmptyMap, content, FALSE, TRUE).id

\* C22: the embedding id is a pure function of (content, model name):
\* get_embedding returns for a content the id it returned in the initial
\* state, whatever the state and the force_refresh flag; different contents
\* get different ids, and so does the same content under another model name.
C22_IdIsPureFunction ==
    /\ (last.op = "get_embedding" /\ last.path # "error") =>
           last.id = FirstId(last.content)
    /\ \A c \in Contents, f \in BOOLEAN, ok \in BOOLEAN :
           GetEmbedding(embedding_cache, vector_embeddings, c, f, ok).id = FirstId(c)
    /\ \A c1, c2 \in Contents : FirstId(c1) = FirstId(c2) => c1 = c2
    /\ \A c1, c2 \in Contents, m1, m2 \in ModelNames :
           GenerateCacheKey(c1, m1) = GenerateCacheKey(c2, m2) =>
               c1 = c2 /\ m1 = m2

\* a forced call returned the id while the store holds, under that id, a
\* vector other than the one returned, and the provider has changed
C22_Witness ==
    /\ last.op = "get_embedding"
    /\ last.force_refresh
    /\ last.path = "computed"
    /\ last.id \in DOMAIN vector_embeddings
    /\ vector_embeddings[last.id].embedding_vector # last.vector
    /\ provider_version # 1

----------------------------------------------------------------------------
\* Claims checked under SpecRecords

\* C23: after any create and any update, the embedding reference of a row is
\* the id computed from its current text and the service's model; so two rows
\* share a reference only if their texts are identical.
C23_ReferenceFollowsText ==
    /\ \A id \in DOMAIN stock_data :
           stock_data[id].embedding_id = FirstId(stock_data[id].content)
    /\ \A i, j \in DOMAIN stock_data :
           stock_data[i].embedding_id = stock_data[j].embedding_id =>
               stock_data[i].content = stock_data[j].content

\* an update has changed the text of a row while another row keeps the text
\* the updated row had
C23_Witness ==
    /\ last.op = "update"
    /\ last.outcome = "ok"
    /\ last.update.content # NULL
    /\ \E j \in DOMAIN stock_data :
          /\ j # last.id
          /\ stock_data[j].content # stock_data[last.id].content
          /\ stock_data[j].embedding_id # stock_data[last.id].embedding_id

----------------------------------------------------------------------------
\* Claims checked under SpecSimilarity

ZeroNorm(v) == \A i \in DOMAIN v : v[i] = 0

ZeroNormScoresZero ==
    last.op = "cosine" =>
        ((ZeroNorm(last.a) \/ ZeroNorm(last.b)) => last.similarity.m = 0)

\* the computed similarity is never more than one unit in the last place
\* beyond 1 in size
SimilarityWithinOneUlp ==
    last.op = "cosine" =>
        /\ FLessEq(FNeg(FAdd(FromInt(1), [m |-> 1, e |-> 1 - MantissaBits])),
                   last.similarity)
        /\ FLessEq(last.similarity,
                   FAdd(FromInt(1), [m |-> 1, e |-> 1 - MantissaBits]))

\* a vector scored against itself gets a similarity above 1
SimilarityAboveOne ==
    /\ last.op = "cosine"
    /\ last.a = last.b
    /\ ~FLessEq(last.similarity, FromInt(1))

\* the step is a get, update or delete of the id last' names
RecordStep ==
    \/ last'.op = "get" /\ GetStockDataById(last'.id)
    \/ /\ last'.op = "update"
       /\ \E db_ok \in BOOLEAN : UpdateStockData(last'.id, last'.update, db_ok, db_ok)
    \/ /\ last'.op = "delete"
       /\ \E commit_ok \in BOOLEAN : DeleteStockData(last'.id, commit_ok)

\* C25: get, update and delete of an id that does not exist report not-found
\* and leave the content rows, the embedding store, the result cache and the
\* memory cache unchanged; an update with new text computes no embedding.
C25_MissingIdChangesNothing ==
    [][(last'.id \notin DOMAIN stock_data /\ RecordStep) =>
          /\ last'.outcome = "not_found"
          /\ UNCHANGED <<stock_data, vector_embeddings, market_cache,
                         embedding_cache, provider_calls>>]_vars

\* an update with a text that was never embedded named a missing id, while
\* rows and embeddings exist
C25_Witness ==
    /\ last.op = "update"
    /\ last.outcome = "not_found"
    /\ last.update.content # NULL
    /\ FirstId(last.update.content) \notin DOMAIN vector_embeddings
    /\ FirstId(last.update.content) \notin DOMAIN embedding_cache
    /\ stock_data # EmptyMap
    /\ vector_embeddings # EmptyMap

----------------------------------------------------------------------------
\* Claims checked under SpecEmbedding: retention and usage

\* The last call was a get_embedding served on the given path, for an id that
\* has a record.  No time has passed since (Tick replaces last), so the vector
\* was returned later than now - RetentionWindow.
JustServed(path) ==
    /\ last.op = "get_embedding"
    /\ last.path = path
    /\ last.id \in DOMAIN vector_embeddings

\* C26: a sweep never deletes a record whose vector get_embedding returned,
\* from the memory cache or from the store, later than now minus the
\* retention window.
C26_SweepKeepsRecentlyUsed ==
    [][((JustServed("memory") \/ JustServed("database"))
        /\ \E commit_ok \in BOOLEAN : CleanupExpiredCache(commit_ok)) =>
           last.id \in DOMAIN vector_embeddings']_vars

\* the part of C26 about vectors served from the store
SweepKeepsServedFromStore ==
    [][(JustServed("database")
        /\ \E commit_ok \in BOOLEAN : CleanupExpiredCache(commit_ok)) =>
           last.id \in DOMAIN vector_embeddings']_vars

\* a vector was served from the memory cache while its record, untouched by
\* the call, is older than the retention window: the next sweep deletes it
ServedFromMemoryYetStale ==
    /\ JustServed("memory")
    /\ vector_embeddings[last.id].last_used < now - RetentionWindow

----------------------------------------------------------------------------
\* Claims checked under SpecFilter

\* the timestamp a row is dated by
AuthoritativeTimestamp(row) ==
    IF row.data_timestamp # NoTime THEN row.data_timestamp ELSE row.created_at

\* C21: a row passes the date filter iff date_from <= ts <= date_to, each
\* bound applied only when given and both inclusive, ts being the row's data
\* timestamp when it has one and its creation timestamp otherwise.
C21_DateFilterOnAuthoritativeTimestamp ==
    last.op = "filter" =>
        (last.passes <=>
            /\ last.query.date_from # NoTime =>
                   last.query.date_from <= AuthoritativeTimestamp(stock_data[1])
            /\ last.query.date_to # NoTime =>
                   AuthoritativeTimestamp(stock_data[1]) <= last.query.date_to)

\* a row with a data timestamp was rejected on it although its creation
\* timestamp lies within the requested range
C21_Witness ==
    /\ last.op = "filter"
    /\ ~last.passes
    /\ stock_data[1].data_timestamp # NoTime
    /\ last.query.date_from # NoTime
    /\ last.query.date_to # NoTime
    /\ last.query.date_from <= stock_data[1].created_at
    /\ stock_data[1].created_at <= last.query.date_to

----------------------------------------------------------------------------
\* Claims checked under SpecEmbedding

\* the step is a call of get_embedding, described by last'
GetEmbeddingStep ==
    /\ last'.op = "get_embedding"
    /\ GetEmbeddingCall(last'.content, last'.force_refresh, last'.db_ok)

\* the call of this step reaches the provider and the INSERT that follows is
\* refused (the store is down, or a row for the id exists)
ComputesAndFailsToPersist ==
    /\ GetEmbeddingStep
    /\ last'.force_refresh \/ ReachesProvider(last'.content)
    /\ ~last'.db_ok \/ last'.id \in DOMAIN vector_embeddings

\* the call of this step is not forced and finds its id in the memory cache
LaterCallInProcess ==
    /\ GetEmbeddingStep
    /\ ~last'.force_refresh
    /\ GenerateCacheKey(last'.content, ModelName) \in DOMAIN embedding_cache

\* C14: when persisting the computed record fails, get_embedding still returns
\* (id, vector) and keeps the vector in the memory cache; a later non-forced
\* call in the same process, the id still being in the memory cache, returns
\* that vector without invoking the provider.
C14_FailedPersistStillServes ==
    [][/\ ComputesAndFailsToPersist =>
             /\ last'.path = "computed"
             /\ last'.id = GenerateCacheKey(last'.content, ModelName)
             /\ last'.vector = Encode(last'.content, provider_version)
             /\ last'.id \in DOMAIN embedding_cache'
             /\ embedding_cache'[last'.id] = last'.vector
       /\ LaterCallInProcess =>
             /\ last'.path = "memory"
             /\ last'.vector = embedding_cache[last'.id]
             /\ provider_calls' = provider_calls
             /\ vector_embeddings' = vector_embeddings]_vars

\* a non-forced call was served from the memory cache although the store has
\* no record for the id: the INSERT of the computing call had failed
C14_Witness ==
    /\ last.op = "get_embedding"
    /\ ~last.force_refresh
    /\ last.path = "memory"
    /\ last.id \notin DOMAIN vector_embeddings
    /\ provider_calls[last.content] = 1

----------------------------------------------------------------------------
\* Claims checked under SpecEmbedding: the hit paths

\* C27: a non-forced call that finds its id in the memory cache returns the
\* mapped vector and changes nothing: the provider is not invoked and the
\* store is not written (usage counter and last-used stay as they were).
C27_MemoryHitFrame ==
    [][LaterCallInProcess =>
          /\ last'.path = "memory"
          /\ last'.id = GenerateCacheKey(last'.content, ModelName)
          /\ last'.vector = embedding_cache[last'.id]
          /\ UNCHANGED <<embedding_cache, vector_embeddings, stock_data,
                         market_cache, provider_calls, provider_version, now>>]_vars

\* a call was served from the memory cache at a time later than the last use
\* the store has recorded for the id
C27_Witness ==
    /\ last.op = "get_embedding"
    /\ last.path = "memory"
    /\ last.id \in DOMAIN vector_embeddings
    /\ vector_embeddings[last.id].last_used < now
    /\ vector_embeddings[last.id].embedding_vector = last.vector

\* the call of this step is not forced, misses the memory cache and finds a
\* record in the store, which accepts the usage update
StoreHit ==
    /\ GetEmbeddingStep
    /\ ~last'.force_refresh
    /\ last'.db_ok
    /\ last'.id \notin DOMAIN embedding_cache
    /\ last'.id \in DOMAIN vector_embeddings

\* C28: a non-forced call that misses the memory cache and finds a record in
\* the store returns the stored vector without invoking the provider, adds
\* exactly 1 to the usage counter, sets last-used to the current time, leaves
\* the stored vector as it is and puts the vector in the memory cache.
C28_StoreHitEffects ==
    [][StoreHit =>
          /\ last'.path = "database"
          /\ last'.vector = vector_embeddings[last'.id].embedding_vector
          /\ provider_calls' = provider_calls
          /\ DOMAIN vector_embeddings' = DOMAIN vector_embeddings
          /\ vector_embeddings'[last'.id].usage_count
                 = vector_embeddings[last'.id].usage_count + 1
          /\ vector_embeddings'[last'.id].last_used = now
          /\ vector_embeddings'[last'.id].embedding_vector
                 = vector_embeddings[last'.id].embedding_vector
          /\ vector_embeddings'[last'.id].dimension
                 = vector_embeddings[last'.id].dimension
          /\ \A k \in DOMAIN vector_embeddings \ {last'.id} :
                 vector_embeddings'[k] = vector_embeddings[k]
          /\ last'.id \in DOMAIN embedding_cache'
          /\ embedding_cache'[last'.id] = last'.vector]_vars

\* after a restart a call was served from the store, later than the record
\* was written
C28_Witness ==
    /\ last.op = "get_embedding"
    /\ last.path = "database"
    /\ vector_embeddings[last.id].usage_count = 2
    /\ vector_embeddings[last.id].last_used = now
    /\ now > 0
    /\ embedding_cache[last.id] = last.vector

\* C29: as long as an embedding record exists its usage counter never
\* decreases, whatever call or sweep takes the step.
C29_UsageNeverDecreases ==
    [][\A k \in DOMAIN vector_embeddings \cap DOMAIN vector_embeddings' :
          vector_embeddings'[k].usage_count >= vector_embeddings[k].usage_count]_vars

\* a forced call computed a vector for an id whose record had been used more
\* than once, the store accepting writes
C29_Witness ==
    /\ last.op = "get_embedding"
    /\ last.force_refresh
    /\ last.db_ok
    /\ last.path = "computed"
    /\ last.id \in DOMAIN vector_embeddings
    /\ vector_embeddings[last.id].usage_count >= 2

----------------------------------------------------------------------------
\* Claims checked under SpecLookups

\* the step is a search (a provider fault leaves `last` as it was) that finds
\* an unexpired row of the result cache
LookupFinds ==
    /\ last'.op = "search"
    /\ provider_version' = provider_version
    /\ CachedItemFound(market_cache, GenerateSearchCacheKey(last'.query))

----------------------------------------------------------------------------
\* Claims checked under SpecSweep: the hit counter

\* C31: as long as a row of the result cache exists its hit counter never
\* decreases, whether the step is a lookup, a search that computes and puts a
\* result under the same key, or a sweep.
C31_HitCountNeverDecreases ==
    [][\A k \in DOMAIN market_cache \cap DOMAIN market_cache' :
          market_cache'[k].hit_count >= market_cache[k].hit_count]_vars

\* a search missed a row that had been hit and has expired, computed the
\* result anew and tried to put it under the row's key; the row kept its count
C31_Witness ==
    /\ last.op = "search"
    /\ ~last.found
    /\ last.scored
    /\ ~last.put
    /\ GenerateSearchCacheKey(last.query) \in DOMAIN market_cache
    /\ market_cache[GenerateSearchCacheKey(last.query)].hit_count >= 1
    /\ market_cache[GenerateSearchCacheKey(last.query)].expires_at <= now

----------------------------------------------------------------------------
\* Claims checked under SpecFingerprint

\* the two requests are equal in every field but the symbol list
EqualButSymbols(a, b) ==
    /\ a.query = b.query
    /\ a.limit = b.limit
    /\ a.similarity_threshold = b.similarity_threshold
    /\ a.include_news = b.include_news
    /\ a.include_analysis = b.include_analysis
    /\ a.date_from = b.date_from
    /\ a.date_to = b.date_to

\* t lists the elements of s in another order (or the same)
Reordered(s, t) ==
    /\ Len(s) = Len(t)
    /\ \A x \in Range(s) \cup Range(t) :
          Cardinality({i \in DOMAIN s : s[i] = x})
              = Cardinality({i \in DOMAIN t : t[i] = x})

\* C33: two requests that differ only in the order of their symbol list have
\* the same fingerprint, and two requests that differ in the query text, the
\* symbol set, the limit, the threshold, a type-inclusion flag or a date bound
\* have different fingerprints.
C33_FingerprintOfCanonicalRequest ==
    last.op = "fingerprints" =>
        /\ (EqualButSymbols(last.a, last.b) /\ Reordered(last.a.symbols, last.b.symbols))
               => last.key_a = last.key_b
        /\ (~EqualButSymbols(last.a, last.b)
               \/ Range(last.a.symbols) # Range(last.b.symbols))
               => last.key_a # last.key_b

\* two requests with the same symbols in different orders were fingerprinted
C33_Witness ==
    /\ last.op = "fingerprints"
    /\ EqualButSymbols(last.a, last.b)
    /\ last.a.symbols = <<"MSFT", "AAPL">>
    /\ last.b.symbols = <<"AAPL", "MSFT">>
    /\ last.key_a = last.key_b

----------------------------------------------------------------------------
\* Claims checked under SpecKinds

\* the step is a put of a key and a kind for which the table holds no row,
\* the store accepting writes
PutOfNewKind ==
    /\ last'.op = "cache_data"
    /\ last'.put_ok
    /\ MarketCacheData(last'.cache_key, last'.cache_type, last'.data, TRUE)
    /\ last'.cache_key \in DOMAIN market_cache
           => market_cache[last'.cache_key].cache_type # last'.cache_type

\* a lookup of a key for one kind never returns a row of another kind
LookupIsolatedByKind ==
    (last.op = "get_cached_data" /\ last.hit)
        => market_cache[last.cache_key].cache_type = last.cache_type

PutRefusedByOtherKind ==
    /\ last.op = "cache_data"
    /\ last.put_ok
    /\ last.cache_key \in DOMAIN market_cache
    /\ market_cache[last.cache_key].cache_type # last.cache_type

----------------------------------------------------------------------------
\* Claims checked under SpecLookups: what a search writes

\* the step is a search (a change of the provider leaves `last` as it was)
SearchTakesStep ==
    /\ last'.op = "search"
    /\ provider_version' = provider_version

\* C34: a search leaves every content row as it was, the similarity score and
\* the embedding reference included: the score is on the returned results
\* only, and in the embedding store a search writes at most the record of the
\* query text.
C34_SearchLeavesContentRows ==
    [][SearchTakesStep =>
          /\ stock_data' = stock_data
          /\ \A id \in DOMAIN stock_data' : stock_data'[id].similarity_score = NoScore
          /\ DOMAIN vector_embeddings \subseteq DOMAIN vector_embeddings'
          /\ \A k \in DOMAIN vector_embeddings' :
                k # GenerateCacheKey(last'.query.query, ModelName)
                    => /\ k \in DOMAIN vector_embeddings
                       /\ vector_embeddings'[k] = vector_embeddings[k]]_vars

\* a search scored a row and returned it with its score, and wrote the usage
\* of the query text's record; the row has no score
C34_Witness ==
    /\ last.op = "search"
    /\ last.scored
    /\ last.results # <<>>
    /\ \A i \in DOMAIN last.results : last.results[i].similarity_score # NoScore
    /\ \E id \in DOMAIN stock_data :
          /\ stock_data[id].content = last.results[1].content
          /\ stock_data[id].similarity_score = NoScore
    /\ GenerateCacheKey(last.query.query, ModelName) \in DOMAIN vector_embeddings
    /\ vector_embeddings[GenerateCacheKey(last.query.query, ModelName)].usage_count >= 2

----------------------------------------------------------------------------
\* Claims checked under SpecEmbedding: the memory cache and the store

\* C35: every id in the memory cache has a record in the store that holds the
\* same vector, after any sequence of get_embedding calls (forced or not, the
\* provider's output changing between calls), store failures and sweeps.
C35_MemoryMirrorsStore ==
    \A k \in DOMAIN embedding_cache :
        /\ k \in DOMAIN vector_embeddings
        /\ vector_embeddings[k].embedding_vector = embedding_cache[k]

\* after a forced call with changed weights, the store accepting writes, the
\* memory cache holds the new vector and the store the old one
MemoryDiffersFromStore ==
    /\ last.op = "get_embedding"
    /\ last.force_refresh
    /\ last.db_ok
    /\ last.id \in DOMAIN vector_embeddings
    /\ last.id \in DOMAIN embedding_cache
    /\ vector_embeddings[last.id].embedding_vector # embedding_cache[last.id]

\* after a call whose INSERT the store refused, the memory cache holds a
\* vector for an id that has no record
MemoryWithoutRecord ==
    /\ last.op = "get_embedding"
    /\ ~last.db_ok
    /\ last.id \in DOMAIN embedding_cache
    /\ last.id \notin DOMAIN vector_embeddings

----------------------------------------------------------------------------
\* Claims checked under SpecReferences

\* the embedding reference of the row names a record of the store
Resolves(row, store) ==
    row.embedding_id # NULL => row.embedding_id \in DOMAIN store

\* C36, as stated: every content row with an embedding reference points to a
\* record that exists in the embedding store, for any sequence of create,
\* update, search and sweep.
C36_ReferencesResolve ==
    \A id \in DOMAIN stock_data : Resolves(stock_data[id], vector_embeddings)

\* C36, amended: the embedding reference of a content row is the id of the
\* row's own text; with a store that accepts writes the record it names exists
\* after create, update and search, and a reference stops resolving only in a
\* step of the sweep, which deletes records by their last use alone.
C36_ReferenceDanglesOnlyBySweep ==
    [][\A id \in DOMAIN stock_data' :
          LET row == stock_data'[id] IN
          row.embedding_id # NULL =>
              /\ row.embedding_id = GenerateCacheKey(row.content, ModelName)
              /\ ~Resolves(row, vector_embeddings') =>
                    \/ last'.op = "cleanup"
                    \/ /\ id \in DOMAIN stock_data
                       /\ stock_data[id].embedding_id = row.embedding_id
                       /\ ~Resolves(stock_data[id], vector_embeddings)]_vars

\* a search found candidates and scored none, the record of the only row's
\* text having been deleted by the sweep: the row is skipped
SearchSkipsRowAfterSweep ==
    /\ last.op = "search"
    /\ last.scored
    /\ last.results = <<>>
    /\ DOMAIN stock_data = {1}
    /\ stock_data[1].embedding_id # NULL
    /\ ~Resolves(stock_data[1], vector_embeddings)

----------------------------------------------------------------------------
\* Claims checked under SpecStale

\* some row of the content index has the content, type and symbol of the result
InContentIndex(result) ==
    \E id \in DOMAIN stock_data :
        /\ stock_data[id].content = result.content
        /\ stock_data[id].data_type = result.content_type
        /\ stock_data[id].symbol = result.symbol

\* C37, as stated: after a content row is deleted or its text updated, no
\* search returns the deleted row or the old text: what a search returns is
\* in the content index as it is now.
C37_SearchReturnsCurrentRecords ==
    last.op = "search" =>
        \A i \in DOMAIN last.results : InContentIndex(last.results[i])

\* the row of the result cache is unexpired and holds a non-empty list
Servable(cache, k) ==
    /\ CachedItemFound(cache, k)
    /\ cache[k].cache_value.results # <<>>

\* C37, amended: an unexpired row of the result cache that holds a non-empty
\* list keeps its list whatever is created, updated or deleted in the content
\* index, and a search with its fingerprint returns that list, computed when
\* the row was written, without looking at the content index.
C37_CachedListServedAsWritten ==
    [][\A k \in DOMAIN market_cache :
          Servable(market_cache, k) =>
              /\ k \in DOMAIN market_cache'
              /\ market_cache'[k].cache_value = market_cache[k].cache_value
              /\ (last'.op = "search" /\ GenerateSearchCacheKey(last'.query) = k)
                    => /\ last'.from_cache
                       /\ last'.results
                              = MapSeq(market_cache[k].cache_value.results, Validate)]_vars

\* a search was served from the result cache with a row that has been deleted
\* from the content index, or with a text that has been replaced
StaleResultServed ==
    /\ last.op = "search"
    /\ last.from_cache
    /\ \E i \in DOMAIN last.results : ~InContentIndex(last.results[i])

\* a search was served from the result cache without a row that was created
\* after the list was written
NewRowNotServed ==
    /\ last.op = "search"
    /\ last.from_cache
    /\ \E id \in DOMAIN stock_data :
          /\ stock_data[id].embedding_id \in DOMAIN vector_embeddings
          /\ \A i \in DOMAIN last.results :
                last.results[i].content # stock_data[id].content

----------------------------------------------------------------------------
\* Claims checked under SpecCounters

\* process w commits its hit of the result cache in this step
CommitsHit(w) == workers[w].pc = "hit" /\ workers'[w].pc # "hit"

\* process w commits its use of an embedding record in this step
CommitsUsage(w) == workers[w].pc = "used" /\ workers'[w].pc # "used"

\* C38: no increment is lost under concurrency: every hit of the result cache
\* that commits leaves the row's hit counter one higher than it was, and
\* every store hit of get_embedding that commits leaves the record's usage
\* counter one higher than it was, so N hits raise a counter by exactly N.
C38_NoIncrementLost ==
    [][\A w \in Workers :
          /\ CommitsHit(w) =>
                LET k == GenerateSearchCacheKey(workers[w].query) IN
                market_cache'[k].hit_count = market_cache[k].hit_count + 1
          /\ CommitsUsage(w) =>
                LET k == GenerateCacheKey(workers[w].content, ModelName) IN
                vector_embeddings'[k].usage_count
                    = vector_embeddings[k].usage_count + 1]_vars

----------------------------------------------------------------------------
\* Claims about cleanup_expired_cache whose commit fails

\* the rows of both stores survive a sweep whose commit fails (the rollback
\* of line 326 undoes the deletes)
FailedSweepKeepsRows ==
    [][CleanupExpiredCache(FALSE) =>
          /\ market_cache' = market_cache
          /\ vector_embeddings' = vector_embeddings]_vars

\* C39: the sweep is all-or-nothing: when its commit fails, every cache row,
\* every embedding record and every memory-cache entry present before the
\* call is still present after it.
C39_SweepAllOrNothing ==
    [][CleanupExpiredCache(FALSE) =>
          /\ market_cache' = market_cache
          /\ vector_embeddings' = vector_embeddings
          /\ \A k \in DOMAIN embedding_cache :
                /\ k \in DOMAIN embedding_cache'
                /\ embedding_cache'[k] = embedding_cache[k]]_vars

----------------------------------------------------------------------------
\* Claims checked under SpecIngest

\* this step is a call of ingest_news_data that returned its count
IngestReturns ==
    /\ last'.op = "ingest"
    /\ last'.outcome = "ok"
    /\ now' = now
    /\ provider_version' = provider_version
    /\ \E articles \in ArticleLists :
          \E write_ok \in [DOMAIN articles -> BOOLEAN] :
             IngestNewsData(articles, write_ok, TRUE)

\* C40: get_embedding leaves its caller's transaction alone: the count
\* ingest_news_data returns is the number of rows the call added to
\* stock_data.
C40_IngestCountsStoredRows ==
    [][IngestReturns =>
          last'.count = Cardinality(DOMAIN stock_data')
                            - Cardinality(DOMAIN stock_data)]_vars

\* the same when every INSERT of an embedding record succeeds
IngestCountsStoredRowsWhenWritesSucceed ==
    [][(/\ last'.op = "ingest"
        /\ last'.outcome = "ok"
        /\ now' = now
        /\ provider_version' = provider_version
        /\ \E articles \in ArticleLists :
              IngestNewsData(articles, [i \in DOMAIN articles |-> TRUE], TRUE)) =>
          last'.count = Cardinality(DOMAIN stock_data')
                            - Cardinality(DOMAIN stock_data)]_vars

====
